---------------------------- MODULE Spec2Model ----------------------------
(***************************************************************************)
(* A model of the logolang compiler: the scoped symbol table               *)
(* (symtable.py), the semantic actions of the translator (syntrans.py),    *)
(* the IR nodes' code generation (codegen.py), the standard library        *)
(* loader (logolib.py), the linker (compiler.py) and the driver            *)
(* (__main__.py).                                                          *)
(*                                                                         *)
(* Python strings are modelled as sequences of tokens: an identifier is    *)
(* one token, the punctuation the code inserts ("@", ".") is one token     *)
(* each, so that concatenation, upper() and startswith("@") are computed   *)
(* as the code computes them.  Python objects (the symbol dicts, which     *)
(* are shared by reference between scopes, tables and IR nodes) live in    *)
(* a heap and are named by their index; 0 is None.                         *)
(***************************************************************************)
EXTENDS Integers, Sequences, FiniteSets, TLC

VARIABLES
    symtable,        \* symtable.py __symtable, with the heap of symbol dicts
    parser_error,    \* syntrans.py global parser_error, bound by p_error
    body,            \* the statement nodes collected for the open TO block
    line,            \* the lexer's current line number
    pc,              \* where the driver is: "loading", "parsing", "parsed",
                     \* "generated", "rejected", "failed"
    result,          \* the value returned by parse_program
    error,           \* the exception that ended the run
    listing,         \* the target code handed to output_code
    budget,          \* what the bounded input may still contain
    loaded,          \* how many standard_library entries are installed
    rel              \* the expression node under construction / generation

vars == <<symtable, parser_error, body, line, pc, result, error, listing,
          budget, loaded, rel>>

----------------------------------------------------------------------------
(* Bounds of the model.                                                    *)

MaxStmts == 2
MaxDecls == 2

----------------------------------------------------------------------------
(* Strings.                                                                *)

\* str.upper() on one token; tokens without a lower-case letter are fixed.
UpperTok(t) ==
    CASE t = "f" -> "F"
      [] t = "g" -> "G"
      [] t = "x" -> "X"
      [] t = "y" -> "Y"
      [] t = "length" -> "LENGTH"
      [] t = "angle" -> "ANGLE"
      [] t = "_@ang" -> "_@ANG"
      [] t = "__main__" -> "__MAIN__"
      [] OTHER -> t

upper(s) == [i \in 1..Len(s) |-> UpperTok(s[i])]

\* str.startswith("@")
startswith_at(s) == Len(s) > 0 /\ s[1] = "@"

\* an identifier or a name as a one-token string
S(t) == <<t>>

\* None for an optional string argument, and a given one
NONE == <<>>

Some(x) == <<x>>

\* a local variable: v is computed once and F is applied to its value
With(v, F(_)) == CHOOSE y \in {F(x) : x \in {v}} : TRUE

----------------------------------------------------------------------------
(* Python dicts keep insertion order: a sequence of key/value entries.     *)

DHas(d, k) == \E i \in 1..Len(d) : d[i].k = k

DGet(d, k) ==
    IF DHas(d, k) THEN d[CHOOSE i \in 1..Len(d) : d[i].k = k].v ELSE 0

DPut(d, k, v) ==
    IF DHas(d, k)
    THEN [i \in 1..Len(d) |-> IF d[i].k = k THEN [k |-> k, v |-> v] ELSE d[i]]
    ELSE Append(d, [k |-> k, v |-> v])

DValues(d) == [i \in 1..Len(d) |-> d[i].v]

----------------------------------------------------------------------------
(* Exceptions (errors.py, and the built-in KeyError).                      *)

NoError == [kind |-> "none"]

SymbolRedeclaration(lineno, symbol, original) ==
    [kind |-> "SymbolRedeclaration", lineno |-> lineno, symbol |-> symbol,
     original |-> original]

InternalError(msg, arg) == [kind |-> "InternalError", msg |-> msg, arg |-> arg]

LogoLinkerError(msg, arg) == [kind |-> "LogoLinkerError", msg |-> msg, arg |-> arg]

InvalidExpressionType(lineno, msg) ==
    [kind |-> "InvalidExpressionType", lineno |-> lineno, msg |-> msg]

KeyError(key) == [kind |-> "KeyError", key |-> key]

\* the exception classes main() catches and reports; LogoParserError is the
\* base class of InvalidExpressionType and SymbolRedeclaration
Classified(e) ==
    e.kind \in {"SymbolRedeclaration", "InvalidExpressionType", "InternalError",
                "LogoLinkerError", "InvalidCharacter", "InvalidIdentifier"}

----------------------------------------------------------------------------
(* Symbols.  A symbol is a Python dict; `keys' is the set of optional keys *)
(* it holds, the fields of absent keys keep the values below.              *)

BlankFields ==
    [name |-> <<>>, type |-> "None", lineno |-> -1, usage |-> 0,
     scope |-> <<>>, fqsn |-> <<>>, argv |-> <<>>, argc |-> 0, args |-> 0,
     uses |-> <<>>, alias |-> <<>>, library |-> FALSE, internal |-> FALSE,
     graphics |-> FALSE, reverse_args |-> FALSE, target |-> <<>>,
     postcode |-> <<>>, inout |-> "in", is_const |-> FALSE,
     value |-> <<>>, datatype |-> "None",
     code |-> [kind |-> "list", code |-> <<>>], generated |-> FALSE]

\* keyword arguments: the keys given and their values
Kw(keys, vals) ==
    [keys |-> keys,
     vals |-> [f \in DOMAIN BlankFields |->
                  IF f \in DOMAIN vals THEN vals[f] ELSE BlankFields[f]]]

NoKw == Kw({}, [usage |-> 0])

KwDel(kw, key) == [kw EXCEPT !.keys = @ \ {key}]

\* dict.update(kwargs)
Update(sym, kw) ==
    [f \in DOMAIN sym |->
        IF f = "keys" THEN sym.keys \cup kw.keys
        ELSE IF f \in kw.keys THEN kw.vals[f]
        ELSE sym[f]]

\* `key in sym'
In(key, sym) == key \in sym.keys

----------------------------------------------------------------------------
(* symtable.py                                                             *)

EmptySymtable == [scopes |-> <<>>, FUNCTION |-> <<>>, VAR |-> <<>>, heap |-> <<>>]

get_symbols_by_class(st, cls) == st[cls]

new_scope(name) == [name |-> name, symbols |-> <<>>]

push_scope(st, name) == [st EXCEPT !.scopes = Append(@, new_scope(name))]

RECURSIVE fold_symbols(_, _, _)
\* the loop of pop_scope: every symbol of the closed scope is stored in its
\* class table under its fqsn, in the order the scope's dict holds them
fold_symbols(st, ids, i) ==
    IF i > Len(ids) THEN st
    ELSE LET symbol == st.heap[ids[i]]
         IN fold_symbols([st EXCEPT ![symbol.type] = DPut(@, symbol.fqsn, ids[i])],
                         ids, i + 1)

pop_scope(st) ==
    fold_symbols([st EXCEPT !.scopes = SubSeq(@, 1, Len(@) - 1)],
                 DValues(st.scopes[Len(st.scopes)].symbols), 1)

RECURSIVE join_scopes(_, _)
\* ".".join("@%s" % scope["name"] for scope in scopes if scope["name"])
join_scopes(scopes, i) ==
    IF i > Len(scopes) THEN <<>>
    ELSE LET rest == join_scopes(scopes, i + 1)
             this == <<"@">> \o scopes[i].name
         IN IF scopes[i].name = <<>> THEN rest
            ELSE IF rest = <<>> THEN this
            ELSE this \o <<".">> \o rest

current_scope(st) == join_scopes(st.scopes, 1)

get_symbol(st, symbol, scopename, symtype) ==
    With({i \in 1..Len(st.scopes) :
             /\ (scopename = NONE \/ scopename[1] = st.scopes[i].name)
             /\ DHas(st.scopes[i].symbols, upper(symbol))
             /\ (symtype = "None"
                 \/ symtype = st.heap[DGet(st.scopes[i].symbols, upper(symbol))].type)},
         LAMBDA hits :
            IF hits # {}
            THEN DGet(st.scopes[CHOOSE i \in hits : \A j \in hits : j <= i].symbols,
                      upper(symbol))
            ELSE IF symtype # "None" /\ scopename = NONE
                 THEN DGet(st[symtype], upper(symbol))
                 ELSE 0)

\* the tail of add_symbol: the argument names are qualified by the symbol's
\* own scope unless they already start with "@"
qualify_argv(sym) ==
    LET own == <<"@">> \o sym.name
        arg_scope == IF sym.scope # <<>> THEN sym.scope \o own ELSE own
    IN [i \in 1..Len(sym.argv) |->
           IF ~startswith_at(sym.argv[i]) THEN arg_scope \o <<".">> \o sym.argv[i]
           ELSE sym.argv[i]]

\* a mutant of redeclaration: the error reports the line of the new
\* declaration instead of the recorded one
redeclaration_new_line(lineno, symbol, sym) ==
    SymbolRedeclaration(lineno, symbol, lineno)

\* raise SymbolRedeclaration(lineno, symbol, sym["lineno"])
redeclaration(lineno, symbol, sym) ==
    SymbolRedeclaration(lineno, symbol, sym.lineno)

\* add_symbol when get_symbol found sym: the class is checked and the
\* symbol updated with kwargs
update_symbol(st, sym, symbol, symtype, lineno, kwargs) ==
    LET old == st.heap[sym]
        kw1 == IF old.lineno >= 0 /\ "lineno" \in kwargs.keys
               THEN KwDel(kwargs, "lineno") ELSE kwargs
        kw2 == IF old.lineno >= 0 /\ In("value", old) /\ "value" \in kw1.keys
               THEN KwDel(kw1, "value") ELSE kw1
    IN IF old.type # symtype
       THEN [st |-> st, sym |-> 0, error |-> redeclaration(lineno, symbol, old)]
       ELSE IF "name" \in kw2.keys
       THEN [st |-> st, sym |-> 0,
             error |-> InternalError("Cannot modify object 'name'.", symbol)]
       ELSE With(Update(old, kw2),
                 LAMBDA upd :
                    [st |-> [st EXCEPT !.heap[sym] =
                                [upd EXCEPT !.argv = qualify_argv(upd)]],
                     sym |-> sym, error |-> NoError])

\* add_symbol when get_symbol found nothing: a new symbol in the current scope
new_symbol(st, symbol, symtype, lineno, kwargs) ==
    With(current_scope(st),
         LAMBDA sym_scope :
            With(Update([BlankFields EXCEPT
                            !.name = symbol, !.type = symtype, !.lineno = lineno,
                            !.usage = 0, !.scope = sym_scope,
                            !.fqsn = IF sym_scope # <<>>
                                     THEN sym_scope \o <<".">> \o symbol
                                     ELSE symbol] @@ [keys |-> {}],
                        kwargs),
                 LAMBDA fresh :
                    [st |-> [st EXCEPT
                               !.heap = Append(@, [fresh EXCEPT
                                                     !.argv = qualify_argv(fresh)]),
                               !.scopes[Len(st.scopes)].symbols =
                                   DPut(@, upper(symbol), Len(st.heap) + 1)],
                     sym |-> Len(st.heap) + 1, error |-> NoError]))

add_symbol(st, symbol, symtype, lineno, kwargs) ==
    With(get_symbol(st, symbol, NONE, "None"),
         LAMBDA sym :
            IF sym # 0 THEN update_symbol(st, sym, symbol, symtype, lineno, kwargs)
            ELSE new_symbol(st, symbol, symtype, lineno, kwargs))

\* sym["usage"] += 1
bump(st, sym) == [st EXCEPT !.heap[sym].usage = @ + 1]

RECURSIVE increase_symbol_usage(_, _, _)
RECURSIVE increase_args(_, _, _, _)

\* the name increase_symbol_usage looks an argument of s up with
arg_target(s, arg) ==
    IF s.scope # <<>> /\ ~startswith_at(arg)
    THEN <<"@">>
         \o (IF s.scope # <<>> /\ s.name # <<>>
             THEN s.scope \o <<".", "@">> \o s.name
             ELSE s.scope \o s.name)
         \o <<".">> \o arg
    ELSE arg

\* the loop over sym.get("argv", []) + sym.get("uses", [])
increase_args(st, sym, args, i) ==
    IF i > Len(args) THEN [st |-> st, error |-> NoError]
    ELSE With(increase_symbol_usage(st, arg_target(st.heap[sym], args[i]), "VAR"),
              LAMBDA r :
                 IF r.error.kind # "none" THEN r
                 ELSE increase_args(r.st, sym, args, i + 1))

\* increase_symbol_usage once the symbol sym is found: it is counted, then
\* its aliasee, then the arguments and auxiliaries of the resolved function
count_symbol(st, sym, unknown) ==
    With(bump(st, sym),
         LAMBDA st1 :
            IF ~In("alias", st1.heap[sym])
            THEN increase_args(st1, sym, st1.heap[sym].argv \o st1.heap[sym].uses, 1)
            ELSE With(get_symbol(st1, st1.heap[sym].alias, NONE, "None"),
                      LAMBDA sym2 :
                         IF sym2 = 0 THEN [st |-> st1, error |-> unknown]
                         ELSE With(bump(st1, sym2),
                                   LAMBDA st2 :
                                      increase_args(st2, sym2,
                                          st2.heap[sym2].argv \o st2.heap[sym2].uses,
                                          1))))

increase_symbol_usage(st, symbol, symtype) ==
    With(get_symbol(st, symbol, NONE, symtype),
         LAMBDA found :
            With(IF found = 0 /\ symtype # "None" THEN DGet(st[symtype], symbol)
                 ELSE found,
                 LAMBDA sym :
                    IF sym = 0
                    THEN [st |-> st,
                          error |-> InternalError("Increasing unknown symbol usage",
                                                  symbol)]
                    ELSE count_symbol(st, sym,
                             InternalError("Increasing unknown symbol usage", symbol))))

----------------------------------------------------------------------------
(* IR nodes of codegen.py, as far as the translator below builds them.     *)

\* a line of target code: a mnemonic and its operand text; a .DATA line
\* holds the variable's fqsn and its initial value
I(op, arg) == [op |-> op, arg |-> arg, val |-> <<>>]

DataLine(fqsn, value) == [op |-> "=", arg |-> fqsn, val |-> value]

Blank == I("", <<>>)

CallParam(param, inout) == [node |-> "CallParam", param |-> param, inout |-> inout]

\* a pre-formatted instruction template held in a library body
Template(op, arg) == [node |-> "str", op |-> op, arg |-> arg]

NoOp == [node |-> "NoOp"]

\* literal values are kept as the text the listing prints for them
ConstValue(value, datatype) ==
    [node |-> "ConstValue", value |-> value, datatype |-> datatype]

ReferenceValue(symbol) == [node |-> "ReferenceValue", symbol |-> symbol]

AssignOperator(oper, lhs, rhs, datatype) ==
    [node |-> "AssignOperator", oper |-> oper, lhs |-> lhs, rhs |-> rhs,
     datatype |-> datatype]

FunctionDefinition(symbol, code) ==
    [kind |-> "FunctionDefinition", symbol |-> symbol, code |-> code]

RECURSIVE get_func(_, _)
\* CallProcedure.__init__.get_func: 0 stands for the LogoLinkerError raised
get_func(st, name) ==
    With(get_symbol(st, name, NONE, "None"),
         LAMBDA func :
            IF func = 0 THEN 0
            ELSE IF In("alias", st.heap[func]) THEN get_func(st, st.heap[func].alias)
            ELSE func)

\* CallProcedure(symbol, params, **kwargs); type and is_const are the
\* attributes p_expression_random sets through kwargs
CallProcedure(st, symbol, params, attrs) ==
    With(get_func(st, st.heap[symbol].name),
         LAMBDA target :
            IF target = 0
            THEN [node |-> "None",
                  error |-> LogoLinkerError("Cannot resolve function",
                                            st.heap[symbol].name)]
            ELSE [node |-> "CallProcedure", symbol |-> target, params |-> params,
                  attrs |-> attrs, error |-> NoError])

\* the .type and .is_const properties of an expression node
RECURSIVE type_of(_, _)
type_of(st, node) ==
    CASE node.node = "ConstValue" -> node.datatype
      [] node.node = "ReferenceValue" ->
            IF In("datatype", st.heap[node.symbol])
            THEN st.heap[node.symbol].datatype ELSE "float"
      [] node.node = "CallProcedure" -> node.attrs.type
      [] node.node \in {"BooleanValue", "RelationalOperator", "BooleanOperator"} ->
            "bool"
      [] node.node = "BinaryOperator" ->
            With(<<type_of(st, node.lhs), type_of(st, node.rhs)>>,
                 LAMBDA t : IF t[1] = t[2] THEN t[1]
                            ELSE IF "float" \in {t[1], t[2]} THEN "float"
                            ELSE "int")
      [] OTHER -> "None"

RECURSIVE is_const(_)
is_const(node) ==
    CASE node.node = "ConstValue" -> TRUE
      [] node.node = "ReferenceValue" -> FALSE
      [] node.node = "CallProcedure" -> node.attrs.is_const
      [] node.node \in {"BinaryOperator", "RelationalOperator"} ->
            is_const(node.lhs) /\ is_const(node.rhs)
      [] node.node = "BooleanValue" -> TRUE
      [] node.node = "BooleanOperator" -> node.is_const
      [] OTHER -> FALSE

\* datatype(): the zero value of a type, as printed
zero_of(datatype) ==
    CASE datatype = "int" -> S("0")
      [] datatype = "float" -> S("0.0")
      [] datatype = "bool" -> S("False")
      [] OTHER -> <<>>

----------------------------------------------------------------------------
(* logolib.py                                                              *)

Lib(name, keys, vals) ==
    [name |-> S(name), data |-> Kw({"library"} \cup keys, [library |-> TRUE] @@ vals)]

Alias(name, of) ==
    Lib(name, {"graphics", "alias"}, [graphics |-> TRUE, alias |-> S(of)])

Turtle(name, argv, uses, code) ==
    Lib(name, {"graphics", "args", "argv", "code"} \cup (IF uses = <<>> THEN {} ELSE {"uses"}),
        [graphics |-> TRUE, args |-> Len(argv), argv |-> argv, uses |-> uses,
         code |-> [kind |-> "list", code |-> code]])

ANG == S("_@ang")
ARG0 == S("{argv[0]}")
ARG1 == S("{argv[1]}")

standard_library ==
    << Lib("PRINT", {"internal", "reverse_args", "target"},
           [internal |-> TRUE, reverse_args |-> TRUE, target |-> S("WRITE")]),
       Lib("TYPEIN", {"internal", "inout", "target", "postcode"},
           [internal |-> TRUE, inout |-> "out", target |-> S("READ"),
            postcode |-> <<Template("STOR", S("{params[0].name}"))>>]),
       Lib("RANDOM", {"datatype", "is_const", "code"},
           [datatype |-> "int", is_const |-> FALSE,
            code |-> [kind |-> "list",
                      code |-> <<Template("RAND", <<>>), Template("PUSH", S("10")),
                                 Template("MUL", <<>>), Template("TRUNC", <<>>)>>]]),
       Turtle("FORWARD", <<S("length")>>, <<ANG>>,
              <<Template("LOAD", ANG), Template("LOAD", ARG0),
                Template("CALL", S("MOVE"))>>),
       Turtle("BACKWARD", <<S("length")>>, <<ANG>>,
              <<Template("LOAD", ANG), Template("PUSH", S("180")),
                Template("ADD", <<>>), Template("LOAD", ARG0),
                Template("CALL", S("MOVE"))>>),
       Turtle("RIGHT", <<S("angle")>>, <<ANG>>,
              <<Template("LOAD", ANG), Template("LOAD", ARG0),
                Template("SUB", <<>>), Template("STOR", ANG)>>),
       Turtle("LEFT", <<S("angle")>>, <<ANG>>,
              <<Template("LOAD", ANG), Template("LOAD", ARG0),
                Template("ADD", <<>>), Template("STOR", ANG)>>),
       Turtle("PENUP", <<>>, <<>>, <<Template("UNSET", S("0"))>>),
       Turtle("PENDOWN", <<>>, <<>>, <<Template("SET", S("0"))>>),
       Turtle("HEADING", <<>>, <<ANG>>, <<Template("LOAD", ANG)>>),
       Turtle("SETXY", <<S("x"), S("y")>>, <<>>,
              <<Template("LOAD", ARG0), Template("LOAD", ARG1),
                Template("MVTO", <<>>)>>),
       Lib("WIPECLEAN", {"graphics", "target"},
           [graphics |-> TRUE, target |-> S("CLRSCR")]),
       Alias("FO", "FORWARD"), Alias("BW", "BACKWARD"), Alias("RT", "RIGHT"),
       Alias("LT", "LEFT"), Alias("PU", "PENUP"), Alias("PD", "PENDOWN"),
       Alias("WC", "WIPECLEAN") >>

RECURSIVE declare_args(_, _, _, _)
\* the inner loop of initialize_standard_library: each argument is declared
\* as a VAR in the function's scope and its fqsn is overwritten
declare_args(st, argv, i, new_args) ==
    IF i > Len(argv) THEN [st |-> st, new_args |-> new_args]
    ELSE With(add_symbol(st, argv[i], "VAR", -1, NoKw),
              LAMBDA r :
                 With(IF r.st.heap[r.sym].scope # <<>> /\ ~startswith_at(argv[i])
                      THEN r.st.heap[r.sym].scope \o <<".">> \o argv[i]
                      ELSE argv[i],
                      LAMBDA fqsn :
                         declare_args([r.st EXCEPT !.heap[r.sym].fqsn = fqsn],
                                      argv, i + 1, Append(new_args, fqsn))))

\* one turn of the outer loop of initialize_standard_library
load_library_entry(st, entry) ==
    With(add_symbol(st, entry.name, "FUNCTION", -1, entry.data),
         LAMBDA r :
            With(declare_args(
                     push_scope([r.st EXCEPT
                                   !.heap[r.sym].code =
                                       FunctionDefinition(r.sym,
                                           IF "code" \in entry.data.keys
                                           THEN entry.data.vals.code.code ELSE <<>>),
                                   !.heap[r.sym].keys = @ \cup {"code"}],
                                entry.name),
                     r.st.heap[r.sym].argv, 1, <<>>),
                 LAMBDA a :
                    pop_scope([a.st EXCEPT !.heap[r.sym].argv = a.new_args])))

\* __main__.py main(), up to the loop of initialize_standard_library
main_setup ==
    With(add_symbol(push_scope(EmptySymtable, <<>>), S("__main__"), "FUNCTION", 0,
                    Kw({"usage", "code"},
                       [usage |-> 1, code |-> [kind |-> "list", code |-> <<>>]])),
         LAMBDA main : add_symbol(main.st, ANG, "VAR", -1, NoKw).st)

----------------------------------------------------------------------------
(* codegen.py: gen_code                                                    *)

Reverse(seq) == [i \in 1..Len(seq) |-> seq[Len(seq) + 1 - i]]

RECURSIVE Flatten(_, _)
Flatten(seqs, i) == IF i > Len(seqs) THEN <<>> ELSE seqs[i] \o Flatten(seqs, i + 1)

\* AssignOperator.gen_code's table, keyed by the first character of the operator
assign_mnemonic(oper) ==
    CASE oper = "+=" -> <<"ADD">>
      [] oper = "-=" -> <<"SUB">>
      [] oper = "*=" -> <<"MUL">>
      [] oper = "/=" -> <<"DIV">>
      [] oper = "^=" -> <<"POW">>
      [] OTHER -> <<>>

\* the table `operators` of BinaryOperator.gen_code
operators(op) ==
    CASE op = "+" -> <<"ADD">>
      [] op = "-" -> <<"SUB">>
      [] op = "*" -> <<"MUL">>
      [] op = "/" -> <<"DIV">>
      [] op = "%" -> <<"IDIV", "POP">>
      [] op = "^" -> <<"POW">>

\* str.format(**symbol) on a library body line
format_symbol(entry, symbol) ==
    I(entry.op, CASE entry.arg = ARG0 -> symbol.argv[1]
                  [] entry.arg = ARG1 -> symbol.argv[2]
                  [] OTHER -> entry.arg)

RECURSIVE gen_code(_, _)
RECURSIVE node_gen_code(_, _)
RECURSIVE CodeBlock_gen_code(_, _, _)

gen_code(st, n) ==
    CASE n.node = "NoOp" -> <<>>
      [] n.node = "CodeBlock" -> node_gen_code(st, n).code
      [] n.node = "ConstValue" -> <<I("PUSH", n.value)>>
      [] n.node = "ReferenceValue" ->
            LET symbol == st.heap[n.symbol]
            IN IF symbol.scope # <<>>
               THEN <<I("LOAD", symbol.scope \o <<".">> \o symbol.name)>>
               ELSE <<I("LOAD", symbol.name)>>
      [] n.node = "AssignOperator" ->
            LET fqsn == st.heap[n.lhs].fqsn
                m == assign_mnemonic(n.oper)
            IN (IF m # <<>> THEN <<I("LOAD", fqsn)>> ELSE <<>>)
               \o gen_code(st, n.rhs)
               \o [i \in 1..Len(m) |-> I(m[i], <<>>)]
               \o <<I("STOR", fqsn)>>
      [] n.node = "BinaryOperator" ->
            gen_code(st, n.lhs) \o gen_code(st, n.rhs)
            \o [i \in 1..Len(operators(n.op)) |-> I(operators(n.op)[i], <<>>)]
      [] n.node = "CallParam" ->
            IF n.inout = "out" THEN <<>> ELSE gen_code(st, n.param)
      [] n.node = "CallProcedure" ->
            LET symbol == st.heap[n.symbol]
                params == IF symbol.reverse_args THEN Reverse(n.params) ELSE n.params
                called == IF symbol.target # <<>> THEN symbol.target ELSE symbol.name
                post == [i \in 1..Len(symbol.postcode) |->
                            I(symbol.postcode[i].op,
                              st.heap[n.params[1].param.symbol].name)]
            IN Flatten([i \in 1..Len(params) |-> gen_code(st, params[i])], 1)
               \o <<I("CALL", called)>> \o post

\* a mutant of in_use: a function nobody references counts as used
in_use_always(symbol) == symbol.usage >= 0

\* symbol["usage"] > 0: the test FunctionDefinition.gen_code makes before it
\* emits a body, and the test code_gen selects the functions to link with
in_use(symbol) == symbol.usage > 0

\* FunctionDefinition.gen_code
FunctionDefinition_gen_code(st, fd) ==
    LET symbol == st.heap[fd.symbol]
        scope == <<"@">> \o symbol.name
        stor == [i \in 1..Len(symbol.argv) |->
                    I("STOR", IF startswith_at(symbol.argv[i]) THEN symbol.argv[i]
                              ELSE scope \o <<".">> \o symbol.argv[i])]
        entries == [i \in 1..Len(fd.code) |->
                      IF fd.code[i].node = "str"
                      THEN <<format_symbol(fd.code[i], symbol)>>
                      ELSE gen_code(st, fd.code[i])]
    IN IF symbol.internal THEN <<>>
       ELSE IF ~in_use(symbol) THEN <<>>
       ELSE <<Blank, I("DEF", symbol.name)>> \o stor \o Flatten(entries, 1)
            \o <<IF symbol.name = S("__main__") THEN I("HALT", <<>>)
                 ELSE I("RET", <<>>)>>

----------------------------------------------------------------------------
(* compiler.py                                                             *)

\* {k: v for k, v in get_symbols_by_class("FUNCTION").items() if v["usage"] > 0}
selected_functions(st) ==
    SelectSeq(get_symbols_by_class(st, "FUNCTION"), LAMBDA e : in_use(st.heap[e.v]))

\* a mutant of data_symbols: every variable gets a .DATA line
data_symbols_all(st) == DValues(get_symbols_by_class(st, "VAR"))

\* [sym for sym in get_symbols_by_class("VAR").values() if sym["usage"] > 0]
data_symbols(st) ==
    SelectSeq(DValues(get_symbols_by_class(st, "VAR")),
              LAMBDA sym : st.heap[sym].usage > 0)

init_code(st, start) ==
    LET functions == get_symbols_by_class(st, "FUNCTION")
        graphics == \E i \in 1..Len(functions) :
                       /\ st.heap[functions[i].v].usage > 0
                       /\ st.heap[functions[i].v].graphics
        symbols == data_symbols(st)
        sym_value(sym) == IF In("value", sym) THEN sym.value
                          ELSE IF In("datatype", sym) THEN zero_of(sym.datatype)
                          ELSE S("0")
    IN <<I(".START", start)>>
       \o (IF graphics THEN <<Blank, I(".INIT", S("200 200 400 400"))>> ELSE <<>>)
       \o (IF symbols # <<>>
           THEN <<Blank, I(".DATA", <<>>)>>
                \o [i \in 1..Len(symbols) |->
                       DataLine(st.heap[symbols[i]].fqsn, sym_value(st.heap[symbols[i]]))]
           ELSE <<>>)

\* a mutant of emit_pending: the generated flag is not looked at
emit_pending_always(func) == ~func.internal

\* not func.get("generated", False) and not func.get("internal", False)
emit_pending(func) == ~func.generated /\ ~func.internal

\* the exception that leaves FunctionDefinition.gen_code, raised by the
\* gen_code of a statement of the body
gen_code_raises(st, fd) ==
    IF st.heap[fd.symbol].internal \/ ~in_use(st.heap[fd.symbol]) THEN NoError
    ELSE IF \E i \in 1..Len(fd.code) : fd.code[i].node = "CodeBlock"
         THEN CodeBlock_gen_code(st, fd.code, 1).error
         ELSE NoError

RECURSIVE link(_, _, _, _)
\* the loop of code_gen over the selected functions
link(st, functions, i, target_code) ==
    IF i > Len(functions)
    THEN [st |-> st, target_code |-> target_code, error |-> NoError]
    ELSE LET name == functions[i].k
             own == functions[i].v
             func == IF In("alias", st.heap[own])
                     THEN DGet(functions, st.heap[own].alias) ELSE own
             f == st.heap[func]
         IN IF func = 0
            THEN [st |-> st, target_code |-> target_code,
                  error |-> LogoLinkerError("Undefined function", name)]
            ELSE IF ~f.library /\ ~In("code", f)
            THEN [st |-> st, target_code |-> target_code, error |-> KeyError("code")]
            ELSE IF emit_pending(f) /\ In("code", f) /\ gen_code_raises(st, f.code) # NoError
            THEN [st |-> st, target_code |-> target_code,
                  error |-> gen_code_raises(st, f.code)]
            ELSE IF emit_pending(f)
            THEN link([st EXCEPT !.heap[func].generated = TRUE,
                                 !.heap[func].keys = @ \cup {"generated"}],
                      functions, i + 1,
                      target_code \o (IF In("code", f)
                                      THEN FunctionDefinition_gen_code(st, f.code)
                                      ELSE <<>>))
            ELSE link(st, functions, i + 1, target_code)

code_gen(st) ==
    link(st, selected_functions(st), 1,
         init_code(st, S("__main__")) \o <<Blank, I(".CODE", <<>>)>>)

----------------------------------------------------------------------------
(* The inputs of the bounded model: the identifiers and literals a source  *)
(* program is written with.                                                *)

FuncNames == {S("F")}

ParamLists == {<<S("x")>>, <<S("x"), S("x")>>}

One == ConstValue(S("1"), "int")

\* a call statement: the name called and its argument expressions
CallInputs ==
    {<<S("F"), <<One>>>>, <<S("G"), <<>>>>, <<S("FO"), <<One>>>>, <<S("x"), <<>>>>}

VarNames == {S("x")}

AssignOps == {"="}

\* the right-hand side of an assignment: a number literal, or RANDOM
RhsInputs == {"1", "RANDOM"}

----------------------------------------------------------------------------
(* syntrans.py: the semantic actions, run by the parser as it reduces.     *)

\* module global __parser_error: bound to True at import, never rebound
__parser_error == "True"

InBlock == Len(symtable.scopes) = 2

NoAttrs == [type |-> "None", is_const |-> FALSE]

Idle == [state |-> "idle"]

\* an exception leaves the action: whatever was mutated stays mutated
Raise(st, e) ==
    /\ pc' = "failed"
    /\ error' = e
    /\ symtable' = st
    /\ UNCHANGED <<parser_error, body, result, listing, loaded, rel>>

\* p_opt_params: each reduction appends its head after its
\* tail, so the list is built last-to-first
opt_params(exprs) == Reverse(exprs)

\* a mutant of opt_args: the list keeps the order of the source
opt_args_in_order(ids) == ids

\* p_opt_args: the same reduction over the COLON_ID tokens of a signature
opt_args(ids) == Reverse(ids)

\* p_statement, then p_body inside a TO block or
\* p_statement_or_decl_statement at top level
append_statement(st, node) ==
    /\ pc' = "parsing"
    /\ IF InBlock
       THEN /\ body' = [body EXCEPT !.code = Append(@, node)]
            /\ symtable' = st
       ELSE /\ \E sym \in {get_symbol(st, S("__main__"), Some(<<>>), "None")} :
                  symtable' = [st EXCEPT !.heap[sym].code.code = Append(@, node)]
            /\ body' = body
    /\ UNCHANGED <<parser_error, result, error, listing, loaded>>

\* a statement reduced by a production that builds no control statement
Statement(st, node) == append_statement(st, node) /\ UNCHANGED rel

p_primitive_signature(f, params) ==
    /\ pc = "parsing" /\ ~InBlock /\ budget.decls > 0
    /\ budget' = [budget EXCEPT !.decls = @ - 1]
    /\ line' = line + 1
    /\ \E r \in {add_symbol(symtable, f, "FUNCTION", line,
                            Kw({"argv", "argc"},
                               [argv |-> Reverse(opt_args(params)),
                                argc |-> Len(opt_args(params))]))} :
          IF r.error.kind # "none" THEN Raise(r.st, r.error)
          ELSE /\ symtable' = push_scope(r.st, f)
               /\ body' = [sym |-> r.sym, code |-> <<>>]
               /\ UNCHANGED <<parser_error, pc, result, error, listing, loaded, rel>>

p_primitive_decl ==
    /\ pc = "parsing" /\ InBlock
    /\ line' = line + 1
    /\ symtable' = pop_scope([symtable EXCEPT
                        !.heap[body.sym].code = FunctionDefinition(body.sym, body.code),
                        !.heap[body.sym].keys = @ \cup {"code"}])
    /\ body' = [sym |-> 0, code |-> <<>>]
    /\ UNCHANGED <<parser_error, pc, result, error, listing, budget, loaded, rel>>

p_primitive_call(name, args) ==
    /\ pc = "parsing" /\ budget.stmts > 0
    /\ budget' = [budget EXCEPT !.stmts = @ - 1]
    /\ line' = line + 1
    /\ \E a \in {add_symbol(symtable, name, "FUNCTION", -1, NoKw)} :
          IF a.error.kind # "none" THEN Raise(a.st, a.error)
          ELSE \E u \in {increase_symbol_usage(a.st, a.st.heap[a.sym].name, "None")} :
                  IF u.error.kind # "none" THEN Raise(u.st, u.error)
                  ELSE \E c \in {CallProcedure(u.st, a.sym, opt_params(args), NoAttrs)} :
                          IF c.error.kind # "none" THEN Raise(u.st, c.error)
                          ELSE Statement(u.st, c)

\* p_expression_random: the expression RANDOM
p_expression_random(st) ==
    IF get_symbol(st, S("RANDOM"), NONE, "None") = 0
    THEN [st |-> st, node |-> NoOp,
          error |-> InternalError("RANDOM function is not defined.", <<>>)]
    ELSE With(increase_symbol_usage(st, S("RANDOM"), "None"),
              LAMBDA u :
                 IF u.error.kind # "none"
                 THEN [st |-> u.st, node |-> NoOp, error |-> u.error]
                 ELSE With(CallProcedure(u.st, get_symbol(st, S("RANDOM"), NONE, "None"),
                                         <<>>, [type |-> "int", is_const |-> FALSE]),
                           LAMBDA c : [st |-> u.st, node |-> c, error |-> c.error]))

\* the right-hand side of an assignment: a number literal, or RANDOM
Rhs(st, rhs) ==
    IF rhs = "RANDOM" THEN p_expression_random(st)
    ELSE [st |-> st, node |-> ConstValue(S(rhs), "int"), error |-> NoError]

\* the tail of p_assignment_expr: the first assignment of a symbol records
\* its value; a constant recorded this way emits no code
assign(a, oper, e, type) ==
    IF ~In("value", a.st.heap[a.sym])
    THEN With([a.st EXCEPT
                 !.heap[a.sym].value = IF is_const(e.node) THEN e.node.value
                                       ELSE zero_of(type),
                 !.heap[a.sym].keys = @ \cup {"value"}],
              LAMBDA st1 :
                 [st |-> st1,
                  node |-> IF is_const(e.node) THEN NoOp
                           ELSE AssignOperator(oper, a.sym, e.node, type)])
    ELSE [st |-> a.st, node |-> AssignOperator(oper, a.sym, e.node, type)]

p_assignment_expr(name, oper, rhs) ==
    /\ pc = "parsing" /\ budget.stmts > 0
    /\ budget' = [budget EXCEPT !.stmts = @ - 1]
    /\ line' = line + 1
    /\ \E e \in {Rhs(symtable, rhs)} :
          IF e.error.kind # "none" THEN Raise(e.st, e.error)
          ELSE \E type \in {type_of(e.st, e.node)} :
               \E a \in {add_symbol(e.st, name, "VAR", line,
                                    Kw({"datatype"}, [datatype |-> type]))} :
                  IF a.error.kind # "none" THEN Raise(a.st, a.error)
                  ELSE \E r \in {assign(a, oper, e, type)} : Statement(r.st, r.node)

\* p_expression_id, reduced as an expression statement
p_expression_id(name) ==
    /\ pc = "parsing" /\ budget.stmts > 0
    /\ budget' = [budget EXCEPT !.stmts = @ - 1]
    /\ line' = line + 1
    /\ \E a \in {add_symbol(symtable, name, "VAR", -1, NoKw)} :
          IF a.error.kind # "none" THEN Raise(a.st, a.error)
          ELSE \E u \in {increase_symbol_usage(a.st, a.st.heap[a.sym].name, "None")} :
                  IF u.error.kind # "none" THEN Raise(u.st, u.error)
                  ELSE Statement(u.st, ReferenceValue(a.sym))

\* p_error(p) for a token the grammar does not accept: the token is
\* discarded and the parser told to go on (errok)
p_error ==
    /\ pc = "parsing"
    /\ parser_error' = "True"
    /\ UNCHANGED <<symtable, body, line, pc, result, error, listing, budget, loaded, rel>>

\* p_error(None): the input ends where the grammar needs more (an open TO
\* block, or no statement at all); the parser gives up and returns None
p_error_eof ==
    /\ pc = "parsing"
    /\ InBlock \/ (budget.stmts = MaxStmts /\ budget.decls = MaxDecls)
    /\ parser_error' = "True"
    /\ result' = "None"
    /\ pc' = "parsed"
    /\ UNCHANGED <<symtable, body, line, error, listing, budget, loaded, rel>>

\* p_program: the end of the input; parse_program returns p[0]
p_program ==
    /\ pc = "parsing" /\ ~InBlock
    /\ budget.stmts < MaxStmts \/ budget.decls < MaxDecls
    /\ \E sym \in {get_symbol(symtable, S("__main__"), Some(<<>>), "None")} :
          symtable' = pop_scope([symtable EXCEPT !.heap[sym].code =
                                    FunctionDefinition(sym, symtable.heap[sym].code.code)])
    /\ result' = __parser_error
    /\ pc' = "parsed"
    /\ UNCHANGED <<parser_error, body, line, error, listing, budget, loaded, rel>>

----------------------------------------------------------------------------
(* __main__.py: main() after parse_program returned.                       *)

main_code_gen ==
    /\ pc = "parsed" /\ result = "True"
    /\ \E r \in {code_gen(symtable)} :
          IF r.error.kind # "none" THEN Raise(r.st, r.error)
          ELSE /\ symtable' = r.st
               /\ listing' = r.target_code
               /\ pc' = "generated"
               /\ UNCHANGED <<parser_error, body, result, error, loaded, rel>>
    /\ UNCHANGED <<line, budget>>

main_return_1 ==
    /\ pc = "parsed" /\ result # "True"
    /\ pc' = "rejected"
    /\ UNCHANGED <<symtable, parser_error, body, line, result, error, listing, budget, loaded, rel>>

----------------------------------------------------------------------------
(* One compilation.                                                        *)

\* main(): initialize_standard_library(), one catalogue entry per step;
\* parse_program is called when the catalogue is installed
initialize_standard_library ==
    /\ pc = "loading"
    /\ symtable' = load_library_entry(symtable, standard_library[loaded + 1])
    /\ loaded' = loaded + 1
    /\ pc' = IF loaded' = Len(standard_library) THEN "parsing" ELSE "loading"
    /\ UNCHANGED <<parser_error, body, line, result, error, listing, budget, rel>>

Init ==
    /\ symtable = main_setup
    /\ parser_error = "unbound"
    /\ body = [sym |-> 0, code |-> <<>>]
    /\ line = 1
    /\ pc = "loading"
    /\ loaded = 0
    /\ result = "unset"
    /\ error = NoError
    /\ listing = <<>>
    /\ budget = [stmts |-> MaxStmts, decls |-> MaxDecls]
    /\ rel = Idle

Next ==
    \/ initialize_standard_library
    \/ \E f \in FuncNames, params \in ParamLists : p_primitive_signature(f, params)
    \/ p_primitive_decl
    \/ \E c \in CallInputs : p_primitive_call(c[1], c[2])
    \/ \E name \in VarNames, oper \in AssignOps, rhs \in RhsInputs :
          p_assignment_expr(name, oper, rhs)
    \/ \E name \in VarNames : p_expression_id(name)
    \/ p_error
    \/ p_error_eof
    \/ p_program
    \/ main_code_gen
    \/ main_return_1

Spec == Init /\ [][Next]_vars

----------------------------------------------------------------------------
(* Compilations of programs that assign x with the compound operators and   *)
(* reference it.                                                            *)

\* the ASSIGN_OP tokens that name an operation
CompoundOps == {"+=", "-=", "*=", "/="}

AssignNext ==
    \/ initialize_standard_library
    \/ \E name \in VarNames, oper \in CompoundOps, rhs \in RhsInputs :
          p_assignment_expr(name, oper, rhs)
    \/ \E name \in VarNames : p_expression_id(name)
    \/ p_program
    \/ main_code_gen

SpecAssign == Init /\ [][AssignNext]_vars

----------------------------------------------------------------------------
(* Compilations of programs that declare F with up to two parameters,       *)
(* reference :x and call F with up to two arguments.                        *)

Five == ConstValue(S("5"), "int")

\* the COLON_ID lists of the signatures TO F, TO F :x and TO F :x :y
SignatureInputs == {<<>>, <<S("x")>>, <<S("x"), S("y")>>}

\* the argument lists of the calls F, F 1 and F 1 5
ArgumentInputs == {<<>>, <<One>>, <<One, Five>>}

CallNext ==
    \/ initialize_standard_library
    \/ \E params \in SignatureInputs : p_primitive_signature(S("F"), params)
    \/ p_primitive_decl
    \/ \E args \in ArgumentInputs : p_primitive_call(S("F"), args)
    \/ \E name \in VarNames : p_expression_id(name)
    \/ p_program
    \/ main_code_gen

SpecCall == Init /\ [][CallNext]_vars

----------------------------------------------------------------------------
(* Relational expressions: syntrans.p_boolean_relop builds a                *)
(* codegen.RelationalOperator from two operands, the owner of the node      *)
(* assigns its true and false targets, and gen_code emits the comparison.   *)

RelOps == {"<", "<=", ">", ">=", "==", "<>"}

Types == {"int", "float", "str", "bool"}

Literal(t) ==
    CASE t = "int" -> S("1")
      [] t = "float" -> S("1.5")
      [] t = "str" -> S("'a'")
      [] t = "bool" -> S("True")

Label(name) == [node |-> "Label", name |-> name]

\* RelationalOperator.__init__: the node, or the exception it raises.  In
\* the first test `and` binds tighter than `or`.
RelationalOperator(st, oper, lhs, rhs) ==
    IF type_of(st, lhs) = "str"
       \/ (type_of(st, rhs) = "str" /\ oper \notin {"==", "<>"})
    THEN [node |-> NoOp,
          error |-> InternalError("Relational operators for 'str' are not available.",
                                  <<>>)]
    ELSE IF /\ type_of(st, lhs) # type_of(st, rhs)
            /\ (type_of(st, lhs) = "bool" \/ type_of(st, rhs) = "bool")
         THEN [node |-> NoOp,
               error |-> InternalError("Invalid relation operation with 'bool' and 'number'.",
                                       <<>>)]
         ELSE [node |-> [node |-> "RelationalOperator", oper |-> oper,
                         lhs |-> lhs, rhs |-> rhs, true |-> NONE, false |-> NONE],
               error |-> NoError]

\* a mutant of test: <= and >= lose their branch on equality
test_single_branch(oper) ==
    CASE oper = "<" -> [ifTrue |-> <<"JLESS">>, ifFalse |-> <<"JMORE", "JZ">>]
      [] oper = "<=" -> [ifTrue |-> <<"JLESS">>, ifFalse |-> <<"JMORE">>]
      [] oper = ">" -> [ifTrue |-> <<"JMORE">>, ifFalse |-> <<"JLESS", "JZ">>]
      [] oper = ">=" -> [ifTrue |-> <<"JMORE">>, ifFalse |-> <<"JLESS">>]
      [] oper = "==" -> [ifTrue |-> <<"JZ">>, ifFalse |-> <<"JNZ">>]
      [] oper = "<>" -> [ifTrue |-> <<"JNZ">>, ifFalse |-> <<"JZ">>]

\* the table `test` of RelationalOperator.gen_code: the branch mnemonics of
\* each operator; an ifTrue entry jumps to {true}, an ifFalse entry to {false}
test(oper) ==
    CASE oper = "<" -> [ifTrue |-> <<"JLESS">>, ifFalse |-> <<"JMORE", "JZ">>]
      [] oper = "<=" -> [ifTrue |-> <<"JLESS", "JZ">>, ifFalse |-> <<"JMORE">>]
      [] oper = ">" -> [ifTrue |-> <<"JMORE">>, ifFalse |-> <<"JLESS", "JZ">>]
      [] oper = ">=" -> [ifTrue |-> <<"JMORE", "JZ">>, ifFalse |-> <<"JLESS">>]
      [] oper = "==" -> [ifTrue |-> <<"JZ">>, ifFalse |-> <<"JNZ">>]
      [] oper = "<>" -> [ifTrue |-> <<"JNZ">>, ifFalse |-> <<"JZ">>]

\* entry.format(true=..., false=...): the name of the target, or None
format_target(target) ==
    <<":">> \o (IF target # NONE THEN target[1].name ELSE S("None"))

RelationalOperator_gen_code(st, n) ==
    LET op_test == test(n.oper)
        jumps(ms, target) == [i \in 1..Len(ms) |-> I(ms[i], format_target(target))]
        code == IF n.true # NONE /\ n.false # NONE
                THEN jumps(op_test.ifTrue, n.true)
                     \o <<I("JP", format_target(n.false))>>
                ELSE IF n.true # NONE /\ n.false = NONE
                     THEN jumps(op_test.ifTrue, n.true)
                     ELSE IF n.true = NONE /\ n.false # NONE
                          THEN jumps(op_test.ifFalse, n.false)
                          ELSE <<>>
    IN gen_code(st, n.lhs) \o gen_code(st, n.rhs)
       \o <<I("SUB", <<>>), I("POP", <<>>)>> \o code

\* the body of p_boolean_relop: the node p[0], or the exception raised
boolean_relop(st, lineno, oper, lhs, rhs) ==
    LET lt == type_of(st, lhs)
        rt == type_of(st, rhs)
        made == RelationalOperator(st, oper, lhs, rhs)
        raised ==
            IF lt = "bool" \/ rt = "bool"
            THEN InvalidExpressionType(lineno, "bool")
            ELSE IF (lt = "str" \/ rt = "str") /\ lt # rt
                 THEN InvalidExpressionType(lineno,
                          "Cannot compare STRING to other data type")
                 ELSE IF (lt = "str" \/ rt = "str") /\ oper \notin {"==", "<>"}
                      THEN InvalidExpressionType(lineno,
                               "Can only compare STRING equality")
                      ELSE made.error
    IN [node |-> made.node, error |-> raised]

\* boolean_expression : expression REL_OP expression
p_boolean_relop ==
    /\ rel.state = "source"
    /\ \E made \in {boolean_relop(symtable, line, rel.oper, rel.lhs, rel.rhs)} :
          rel' = IF made.error = NoError
                 THEN [rel EXCEPT !.state = "node", !.node = made.node]
                 ELSE [rel EXCEPT !.state = "rejected", !.error = made.error]
    /\ UNCHANGED <<symtable, parser_error, body, line, pc, result, error,
                   listing, budget, loaded>>

\* the owner of the node assigns node.true and node.false: a Label or None
set_targets(true, false) ==
    /\ rel.state = "node"
    /\ rel' = [rel EXCEPT !.state = "targeted", !.node.true = true,
                          !.node.false = false]
    /\ UNCHANGED <<symtable, parser_error, body, line, pc, result, error,
                   listing, budget, loaded>>

relop_gen_code ==
    /\ rel.state = "targeted"
    /\ rel' = [rel EXCEPT !.state = "generated",
                          !.code = RelationalOperator_gen_code(symtable, rel.node)]
    /\ UNCHANGED <<symtable, parser_error, body, line, pc, result, error,
                   listing, budget, loaded>>

TrueTargets == {NONE, Some(Label(S("_@trgt_1")))}

FalseTargets == {NONE, Some(Label(S("_@trgt_2")))}

RelInit ==
    /\ symtable = main_setup
    /\ parser_error = "unbound"
    /\ body = [sym |-> 0, code |-> <<>>]
    /\ line = 1
    /\ pc = "relop"
    /\ loaded = 0
    /\ result = "unset"
    /\ error = NoError
    /\ listing = <<>>
    /\ budget = [stmts |-> 0, decls |-> 0]
    /\ \E oper \in RelOps, lt \in Types, rt \in Types :
          rel = [state |-> "source", oper |-> oper,
                 lhs |-> ConstValue(Literal(lt), lt),
                 rhs |-> ConstValue(Literal(rt), rt),
                 node |-> NoOp, error |-> NoError, code |-> <<>>]

RelNext ==
    \/ p_boolean_relop
    \/ \E true \in TrueTargets, false \in FalseTargets : set_targets(true, false)
    \/ relop_gen_code

SpecRel == RelInit /\ [][RelNext]_vars

----------------------------------------------------------------------------
(* Arithmetic expressions: syntrans.p_expression_binop checks the operand   *)
(* types and builds a codegen.BinaryOperator, whose constructor makes its   *)
(* own checks; any other owner of IR nodes calls the constructor directly.  *)

ArithOps == {"+", "-", "*", "/", "%", "^"}

\* BinaryOperator.__new__: the node, or the exception it raises
BinaryOperator(st, op, lhs, rhs) ==
    IF type_of(st, lhs) = "str" \/ type_of(st, rhs) = "str"
    THEN [node |-> NoOp,
          error |-> InternalError("Operations for 'str' not available.", <<>>)]
    ELSE IF /\ type_of(st, lhs) # type_of(st, rhs)
            /\ (type_of(st, lhs) = "bool" \/ type_of(st, rhs) = "bool")
         THEN [node |-> NoOp,
               error |-> InternalError("Invalid operation with 'bool' and 'number'.",
                                       <<>>)]
         ELSE [node |-> [node |-> "BinaryOperator", op |-> op,
                         lhs |-> lhs, rhs |-> rhs],
               error |-> NoError]

\* expression : expression ADD_OP expression | ... MUL_OP ... | ... PWR_OP ...
p_expression_binop ==
    /\ rel.state = "source"
    /\ \E lt \in {type_of(symtable, rel.lhs)}, rt \in {type_of(symtable, rel.rhs)},
          made \in {BinaryOperator(symtable, rel.oper, rel.lhs, rel.rhs)} :
          \E raised \in {IF lt \notin {"int", "float"}
                         THEN InvalidExpressionType(line, lt)
                         ELSE IF rt \notin {"int", "float"}
                              THEN InvalidExpressionType(line, rt)
                              ELSE made.error} :
             rel' = IF raised = NoError
                    THEN [rel EXCEPT !.state = "node", !.node = made.node]
                    ELSE [rel EXCEPT !.state = "rejected", !.error = raised]
    /\ UNCHANGED <<symtable, parser_error, body, line, pc, result, error,
                   listing, budget, loaded>>

\* codegen.BinaryOperator(op, lhs, rhs), called on the operands as they are
new_BinaryOperator ==
    /\ rel.state = "source"
    /\ \E made \in {BinaryOperator(symtable, rel.oper, rel.lhs, rel.rhs)} :
          rel' = IF made.error = NoError
                 THEN [rel EXCEPT !.state = "constructed", !.node = made.node]
                 ELSE [rel EXCEPT !.state = "refused", !.error = made.error]
    /\ UNCHANGED <<symtable, parser_error, body, line, pc, result, error,
                   listing, budget, loaded>>

\* BinaryOperator.gen_code of the node that was built
binop_gen_code ==
    /\ rel.state \in {"node", "constructed"}
    /\ rel' = [rel EXCEPT !.state = "generated",
                          !.code = gen_code(symtable, rel.node)]
    /\ UNCHANGED <<symtable, parser_error, body, line, pc, result, error,
                   listing, budget, loaded>>

BinInit ==
    /\ symtable = main_setup
    /\ parser_error = "unbound"
    /\ body = [sym |-> 0, code |-> <<>>]
    /\ line = 1
    /\ pc = "binop"
    /\ loaded = 0
    /\ result = "unset"
    /\ error = NoError
    /\ listing = <<>>
    /\ budget = [stmts |-> 0, decls |-> 0]
    /\ \E oper \in ArithOps, lt \in Types, rt \in Types :
          rel = [state |-> "source", oper |-> oper,
                 lhs |-> ConstValue(Literal(lt), lt),
                 rhs |-> ConstValue(Literal(rt), rt),
                 node |-> NoOp, error |-> NoError, code |-> <<>>]

BinNext ==
    \/ p_expression_binop
    \/ new_BinaryOperator
    \/ binop_gen_code

SpecBin == BinInit /\ [][BinNext]_vars

----------------------------------------------------------------------------
(* Boolean expressions and control statements: the productions of          *)
(* syntrans.py build BooleanValue, RelationalOperator and BooleanOperator  *)
(* nodes, p_if_then_else_statement and p_while_statement assign the        *)
(* targets of the condition and lay the statement out in a CodeBlock, and  *)
(* gen_code walks the block.  BooleanOperator.gen_code assigns attributes  *)
(* of its operands, so generation returns the node as the call leaves it   *)
(* next to the code.                                                       *)

AttributeError(type, name) ==
    [kind |-> "AttributeError", type |-> type, name |-> name]

BooleanValue(value) ==
    [node |-> "BooleanValue", value |-> value, true |-> NONE, false |-> NONE]

\* BooleanOperator.__init__; rhs is None for NOT
BooleanOperator(oper, lhs, rhs) ==
    [node |-> "BooleanOperator", oper |-> oper, lhs |-> lhs, rhs |-> rhs,
     is_const |-> is_const(lhs) /\ (rhs = NONE \/ is_const(rhs[1])),
     true |-> NONE, false |-> NONE]

CodeBlock(block) == [node |-> "CodeBlock", block |-> block]

\* a mutant of new_label: the counter starts again with every statement
new_label_per_statement(count) == <<"_@trgt_", ToString(((count - 1) % 2) + 1)>>

\* Label.__new_label: the name made from the counter after its increment
new_label(count) == <<"_@trgt_", ToString(count)>>

\* Label.gen_code: the line ":" + name
Label_gen_code(n) == <<I(":", n.name)>>

BooleanValue_gen_code(n) ==
    IF n.true = NONE /\ n.false = NONE
    THEN <<I("PUSH", IF n.value THEN S("0") ELSE S("1")), I("CMP", S("0"))>>
    ELSE IF n.value /\ n.true # NONE
         THEN <<I("JP", format_target(n.true))>>
         ELSE IF ~n.value /\ n.false # NONE
              THEN <<I("JP", format_target(n.false))>>
              ELSE <<>>

Returned(code, node) == [code |-> code, node |-> node, error |-> NoError]

\* self.lhs.gen_code() + self.rhs.gen_code(), after the targets of both
\* operands were assigned
operands_gen_code(st, n, lhs, rhs) ==
    With(node_gen_code(st, lhs),
         LAMBDA l :
            IF l.error # NoError
            THEN [code |-> <<>>, error |-> l.error,
                  node |-> [n EXCEPT !.lhs = l.node, !.rhs = Some(rhs)]]
            ELSE With(node_gen_code(st, rhs),
                      LAMBDA r :
                         [code |-> l.code \o r.code, error |-> r.error,
                          node |-> [n EXCEPT !.lhs = l.node,
                                             !.rhs = Some(r.node)]]))

\* BooleanOperator.gen_code with __not, __and and __or: the constant branch
\* reads self.value, which no BooleanOperator has
BooleanOperator_gen_code(st, n) ==
    IF n.is_const
    THEN [code |-> <<>>, node |-> n,
          error |-> AttributeError("BooleanOperator", "value")]
    ELSE CASE n.oper = "NOT" ->
                 With(node_gen_code(st, [n.lhs EXCEPT !.true = n.false,
                                                      !.false = n.true]),
                      LAMBDA l : [code |-> l.code, error |-> l.error,
                                  node |-> [n EXCEPT !.lhs = l.node]])
           [] n.oper = "AND" ->
                 operands_gen_code(st, n,
                     [n.lhs EXCEPT !.true = NONE, !.false = n.false],
                     [n.rhs[1] EXCEPT !.true = n.true, !.false = n.false])
           [] n.oper = "OR" ->
                 operands_gen_code(st, n,
                     [n.lhs EXCEPT !.true = n.true, !.false = n.false],
                     [n.rhs[1] EXCEPT !.true = n.true, !.false = n.false])
           [] OTHER -> Returned(<<>>, n)

\* gen_code() of any node
node_gen_code(st, n) ==
    CASE n.node = "BooleanValue" -> Returned(BooleanValue_gen_code(n), n)
      [] n.node = "RelationalOperator" ->
            Returned(RelationalOperator_gen_code(st, n), n)
      [] n.node = "BooleanOperator" -> BooleanOperator_gen_code(st, n)
      [] n.node = "Label" -> Returned(Label_gen_code(n), n)
      [] n.node = "CodeBlock" ->
            With(CodeBlock_gen_code(st, n.block, 1),
                 LAMBDA b : [code |-> b.code, error |-> b.error,
                             node |-> [n EXCEPT !.block = b.node]])
      [] OTHER -> Returned(gen_code(st, n), n)

\* CodeBlock.gen_code, from entry i of the block on
CodeBlock_gen_code(st, block, i) ==
    IF i > Len(block) THEN Returned(<<>>, block)
    ELSE IF block[i].node = "str"
         THEN With(CodeBlock_gen_code(st, block, i + 1),
                   LAMBDA rest :
                      [rest EXCEPT !.code = <<I(block[i].op, block[i].arg)>> \o @])
         ELSE With(node_gen_code(st, block[i]),
                   LAMBDA g :
                      IF g.error # NoError
                      THEN [code |-> <<>>, error |-> g.error,
                            node |-> [block EXCEPT ![i] = g.node]]
                      ELSE With(CodeBlock_gen_code(st, [block EXCEPT ![i] = g.node],
                                                   i + 1),
                                LAMBDA rest : [rest EXCEPT !.code = g.code \o @]))

\* p_opt_else: p[1] is None when the branch is `empty`; the value is a list
\* in both cases
opt_else(p1, p2) == Some(IF p1 = NONE THEN <<>> ELSE p2)

\* a mutant of while_statement: the jump back is laid out before the body
while_statement_jump_first(p2, p3, count) ==
    With(<<Label(new_label(count + 1)), Label(new_label(count + 2))>>,
         LAMBDA l :
            [count |-> count + 2,
             node |-> CodeBlock(<<l[1], [p2 EXCEPT !.true = NONE,
                                                   !.false = Some(l[2])]>>
                                \o <<[BooleanValue(TRUE) EXCEPT !.true = Some(l[1])]>>
                                \o p3 \o <<l[2]>>)])

\* the body of p_while_statement: l is <<start_st, next_st>>
while_statement(p2, p3, count) ==
    With(<<Label(new_label(count + 1)), Label(new_label(count + 2))>>,
         LAMBDA l :
            [count |-> count + 2,
             node |-> CodeBlock(<<l[1], [p2 EXCEPT !.true = NONE,
                                                   !.false = Some(l[2])]>>
                                \o p3
                                \o <<[BooleanValue(TRUE) EXCEPT !.true = Some(l[1])],
                                     l[2]>>)])

\* the body of p_if_then_else_statement; p5 is the value of opt_else, NONE
\* standing for None
if_then_else_statement(p2, p4, p5, count) ==
    With([p2 EXCEPT !.true = NONE, !.false = Some(Label(new_label(count + 1)))],
         LAMBDA cond :
            IF p5 # NONE
            THEN With([BooleanValue(TRUE) EXCEPT
                          !.true = Some(Label(new_label(count + 2)))],
                      LAMBDA force_jp :
                         [count |-> count + 2,
                          node |-> CodeBlock(<<cond>> \o p4
                                             \o <<force_jp, cond.false[1]>>
                                             \o p5[1] \o <<force_jp.true[1]>>)])
            ELSE [count |-> count + 1,
                  node |-> CodeBlock(<<cond>> \o p4
                                     \o <<cond.false[1], [node |-> "None"]>>)])

\* the statements of the bodies: one expression statement each
ThenBody == <<ConstValue(S("10"), "int")>>

ElseBody == <<ConstValue(S("20"), "int")>>

LoopBody == <<ConstValue(S("30"), "int")>>

\* the operand just reduced joins the operands reduced so far; an operand
\* with no operator pending is the boolean_expression itself
Reduced(n) ==
    IF Len(rel.todo) = 1 /\ rel.logic = "None"
    THEN [rel EXCEPT !.todo = <<>>, !.state = "node", !.node = n, !.cond = n]
    ELSE [rel EXCEPT !.todo = Tail(@), !.stack = Append(@, n)]

Rejected(e) == [rel EXCEPT !.state = "rejected", !.error = e]

\* boolean_const : BOOLEAN
p_boolean_const ==
    /\ rel.state = "source" /\ rel.todo # <<>>
    /\ Head(rel.todo).form = "BOOLEAN"
    /\ rel' = Reduced(BooleanValue(upper(Head(rel.todo).text)
                                     \in {S("TRUE"), S("YES")}))
    /\ UNCHANGED <<symtable, parser_error, body, line, pc, result, error,
                   listing, budget, loaded>>

\* boolean_expression : expression REL_OP expression, with
\* p_number_constant for a literal operand
p_boolean_relop_literals ==
    /\ rel.state = "source" /\ rel.todo # <<>>
    /\ Head(rel.todo).form = "literals"
    /\ \E made \in {boolean_relop(symtable, line, Head(rel.todo).oper,
                                  ConstValue(S("1"), "int"),
                                  ConstValue(S("2"), "int"))} :
          rel' = IF made.error = NoError THEN Reduced(made.node)
                 ELSE Rejected(made.error)
    /\ UNCHANGED <<symtable, parser_error, body, line, pc, result, error,
                   listing, budget, loaded>>

\* boolean_expression : expression REL_OP expression, with p_expression_id
\* for the variable on the left and p_number_constant for the literal
p_boolean_relop_variable ==
    /\ rel.state = "source" /\ rel.todo # <<>>
    /\ Head(rel.todo).form = "variable"
    /\ \E a \in {add_symbol(symtable, Head(rel.todo).text, "VAR", -1, NoKw)} :
          IF a.error.kind # "none"
          THEN rel' = Rejected(a.error) /\ symtable' = a.st
          ELSE \E u \in {increase_symbol_usage(a.st, a.st.heap[a.sym].name, "None")} :
                  IF u.error.kind # "none"
                  THEN rel' = Rejected(u.error) /\ symtable' = u.st
                  ELSE \E made \in {boolean_relop(u.st, line, Head(rel.todo).oper,
                                                  ReferenceValue(a.sym),
                                                  ConstValue(S("1"), "int"))} :
                          /\ symtable' = u.st
                          /\ rel' = IF made.error = NoError THEN Reduced(made.node)
                                    ELSE Rejected(made.error)
    /\ UNCHANGED <<parser_error, body, line, pc, result, error, listing, budget,
                   loaded>>

\* boolean_expression : boolean_expression LOGIC_OP boolean_expression
p_boolean_expression_logicop ==
    /\ rel.state = "source" /\ rel.todo = <<>>
    /\ rel.logic \in {"AND", "OR"} /\ Len(rel.stack) = 2
    /\ \E t \in {<<type_of(symtable, rel.stack[1]), type_of(symtable, rel.stack[2])>>} :
          rel' = IF t[1] # "bool" THEN Rejected(InvalidExpressionType(line, t[1]))
                 ELSE IF t[2] # "bool"
                      THEN Rejected(InvalidExpressionType(line, t[2]))
                      ELSE With(BooleanOperator(rel.logic, rel.stack[1],
                                                Some(rel.stack[2])),
                                LAMBDA n : [rel EXCEPT !.state = "node", !.node = n,
                                                       !.cond = n, !.stack = <<>>])
    /\ UNCHANGED <<symtable, parser_error, body, line, pc, result, error,
                   listing, budget, loaded>>

\* codegen.BooleanOperator("NOT", lhs): no production builds this node
new_BooleanOperator_NOT ==
    /\ rel.state = "source" /\ rel.todo = <<>>
    /\ rel.logic = "NOT" /\ Len(rel.stack) = 1
    /\ \E n \in {BooleanOperator("NOT", rel.stack[1], NONE)} :
          rel' = [rel EXCEPT !.state = "node", !.node = n, !.cond = n,
                             !.stack = <<>>]
    /\ UNCHANGED <<symtable, parser_error, body, line, pc, result, error,
                   listing, budget, loaded>>

\* if_then_else_statement : IF boolean_expression THEN body opt_else END
p_if_then_else_statement ==
    /\ rel.state = "node" /\ rel.stmt \in {"IF", "IFELSE"}
    /\ \E p5 \in {opt_else(IF rel.stmt = "IFELSE" THEN Some("ELSE") ELSE NONE,
                           ElseBody)} :
       \E made \in {if_then_else_statement(rel.node, ThenBody, p5, rel.count)} :
          rel' = [rel EXCEPT !.state = "targeted", !.node = made.node,
                             !.count = made.count, !.built = rel.stmt]
    /\ UNCHANGED <<symtable, parser_error, body, line, pc, result, error,
                   listing, budget, loaded>>

\* while_statement : WHILE boolean_expression body END
p_while_statement ==
    /\ rel.state = "node" /\ rel.stmt = "WHILE"
    /\ \E made \in {while_statement(rel.node, LoopBody, rel.count)} :
          rel' = [rel EXCEPT !.state = "targeted", !.node = made.node,
                             !.count = made.count, !.built = rel.stmt]
    /\ UNCHANGED <<symtable, parser_error, body, line, pc, result, error,
                   listing, budget, loaded>>

\* node.gen_code(), called by the owner of the finished node
call_gen_code ==
    /\ rel.state = "targeted"
    /\ \E g \in {node_gen_code(symtable, rel.node)} :
          rel' = [rel EXCEPT !.state = "generated", !.node = g.node,
                             !.code = g.code, !.error = g.error]
    /\ UNCHANGED <<symtable, parser_error, body, line, pc, result, error,
                   listing, budget, loaded>>

\* node.gen_code() once more, the first call having returned
call_gen_code_again ==
    /\ rel.state = "generated" /\ rel.error = NoError
    /\ \E g \in {node_gen_code(symtable, rel.node)} :
          rel' = [rel EXCEPT !.state = "regenerated", !.node = g.node,
                             !.again = g.code, !.error = g.error]
    /\ UNCHANGED <<symtable, parser_error, body, line, pc, result, error,
                   listing, budget, loaded>>

\* the operands a condition is written with: `:v oper 1`, `1 < 2`, and the
\* BOOLEAN tokens
Operands(v) ==
    {[form |-> "variable", oper |-> o, text |-> v] : o \in RelOps}
    \cup {[form |-> "literals", oper |-> "<", text |-> <<>>]}
    \cup {[form |-> "BOOLEAN", oper |-> "", text |-> S(t)] : t \in {"TRUE", "NO"}}

Conditions ==
    {[todo |-> <<l>>, logic |-> o] : l \in Operands(S("x")), o \in {"None", "NOT"}}
    \cup {[todo |-> <<l, r>>, logic |-> o] :
             l \in Operands(S("x")), r \in Operands(S("y")), o \in {"AND", "OR"}}

CtlInit ==
    /\ symtable = main_setup
    /\ parser_error = "unbound"
    /\ body = [sym |-> 0, code |-> <<>>]
    /\ line = 1
    /\ pc = "control"
    /\ loaded = 0
    /\ result = "unset"
    /\ error = NoError
    /\ listing = <<>>
    /\ budget = [stmts |-> 0, decls |-> 0]
    /\ \E c \in Conditions, stmt \in {"IF", "IFELSE", "WHILE"} :
          rel = [state |-> "source", todo |-> c.todo, logic |-> c.logic,
                 stmt |-> stmt, stack |-> <<>>, node |-> NoOp, cond |-> NoOp,
                 built |-> "expression", count |-> 0, code |-> <<>>,
                 again |-> <<>>, error |-> NoError]

CtlNext ==
    \/ p_boolean_const
    \/ p_boolean_relop_literals
    \/ p_boolean_relop_variable
    \/ p_boolean_expression_logicop
    \/ new_BooleanOperator_NOT
    \/ \E true \in TrueTargets, false \in FalseTargets : set_targets(true, false)
    \/ p_if_then_else_statement
    \/ p_while_statement
    \/ call_gen_code
    \/ call_gen_code_again

SpecCtl == CtlInit /\ [][CtlNext]_vars

----------------------------------------------------------------------------
(* Control statements in a compilation: IF and WHILE statements in         *)
(* sequence and inside one another, at top level and in the body of F.     *)
(* The parser reduces a statement when it reads its END, the statements of *)
(* its body before it, and every Label() it builds takes the next value of *)
(* the counter of Label.__new_label.                                       *)

Two == ConstValue(S("2"), "int")

\* the conditions the statements are written with: `NO`, `1 < 2` and
\* `TRUE AND TRUE`
NestConditions ==
    {BooleanValue(FALSE),
     boolean_relop(main_setup, 1, "<", One, Two).node,
     BooleanOperator("AND", BooleanValue(TRUE), Some(BooleanValue(TRUE)))}

\* a statement whose END is still to come: its condition and the bodies
\* parsed so far
Opened(kind, cond) ==
    [kind |-> kind, cond |-> cond, then |-> <<>>, else |-> <<>>, part |-> "then"]

\* boolean_expression, reduced after the IF or WHILE that opens a statement
p_boolean_expression(kind, cond) ==
    /\ pc = "parsing" /\ budget.stmts > 0
    /\ budget' = [budget EXCEPT !.stmts = @ - 1]
    /\ rel' = [rel EXCEPT !.open = Append(@, Opened(kind, cond))]
    /\ UNCHANGED <<symtable, parser_error, body, line, pc, result, error,
                   listing, loaded>>

\* ELSE: the statements that follow belong to the body of opt_else
shift_ELSE ==
    /\ pc = "parsing" /\ rel.open # <<>>
    /\ rel.open[Len(rel.open)].kind = "IF"
    /\ rel.open[Len(rel.open)].part = "then"
    /\ rel' = [rel EXCEPT !.open[Len(rel.open)].part = "else"]
    /\ UNCHANGED <<symtable, parser_error, body, line, pc, result, error,
                   listing, budget, loaded>>

\* p_statement, then p_body: the statement just built joins the body of the
\* statement that encloses it, or the body of the function being parsed
reduced_statement(made) ==
    /\ UNCHANGED <<line, budget>>
    /\ IF Len(rel.open) = 1
       THEN /\ rel' = [rel EXCEPT !.open = <<>>, !.count = made.count]
            /\ append_statement(symtable, made.node)
       ELSE /\ \E outer \in {rel.open[Len(rel.open) - 1]} :
                  rel' = [rel EXCEPT
                            !.count = made.count,
                            !.open = SubSeq(@, 1, Len(@) - 2)
                                     \o <<[outer EXCEPT ![outer.part] =
                                                           Append(@, made.node)]>>]
            /\ UNCHANGED <<symtable, parser_error, body, pc, result, error,
                           listing, loaded>>

\* if_then_else_statement : IF boolean_expression THEN body opt_else END
nested_if_then_else_statement ==
    /\ pc = "parsing" /\ rel.open # <<>>
    /\ \E top \in {rel.open[Len(rel.open)]} :
          /\ top.kind = "IF"
          /\ \E p5 \in {opt_else(IF top.part = "else" THEN Some("ELSE") ELSE NONE,
                                 top.else)} :
             \E made \in {if_then_else_statement(top.cond, top.then, p5, rel.count)} :
                reduced_statement(made)

\* while_statement : WHILE boolean_expression body END
nested_while_statement ==
    /\ pc = "parsing" /\ rel.open # <<>>
    /\ \E top \in {rel.open[Len(rel.open)]} :
          /\ top.kind = "WHILE"
          /\ \E made \in {while_statement(top.cond, top.then, rel.count)} :
                reduced_statement(made)

NestInit ==
    /\ symtable = main_setup
    /\ parser_error = "unbound"
    /\ body = [sym |-> 0, code |-> <<>>]
    /\ line = 1
    /\ pc = "loading"
    /\ loaded = 0
    /\ result = "unset"
    /\ error = NoError
    /\ listing = <<>>
    /\ budget = [stmts |-> MaxStmts, decls |-> MaxDecls]
    /\ rel = [state |-> "nest", open |-> <<>>, count |-> 0]

NestNext ==
    \/ initialize_standard_library
    \/ rel.open = <<>> /\ p_primitive_signature(S("F"), <<>>)
    \/ rel.open = <<>> /\ p_primitive_decl
    \/ rel.open = <<>> /\ p_primitive_call(S("F"), <<>>)
    \/ \E kind \in {"IF", "WHILE"}, cond \in NestConditions :
          p_boolean_expression(kind, cond)
    \/ shift_ELSE
    \/ nested_if_then_else_statement
    \/ nested_while_statement
    \/ rel.open = <<>> /\ p_program
    \/ main_code_gen

SpecNest == NestInit /\ [][NestNext]_vars

----------------------------------------------------------------------------
(* Properties of one compilation.                                          *)

Heap == symtable.heap

Ids == 1..Len(Heap)

\* the symbols the table can still reach: held by an open scope or by a
\* class table
Registered(st) ==
    UNION {{st.scopes[i].symbols[j].v : j \in 1..Len(st.scopes[i].symbols)} :
              i \in 1..Len(st.scopes)}
    \cup {st.FUNCTION[i].v : i \in 1..Len(st.FUNCTION)}
    \cup {st.VAR[i].v : i \in 1..Len(st.VAR)}

\* the registered VAR symbols a qualified name denotes
VarsNamed(st, fqsn) ==
    {id \in Registered(st) : st.heap[id].type = "VAR" /\ st.heap[id].fqsn = fqsn}

Lines(op) == {i \in 1..Len(listing) : listing[i].op = op}

\* a procedure was called that no TO block defines and the library lacks
UndeclaredCalled(id) ==
    /\ Heap[id].type = "FUNCTION"
    /\ ~Heap[id].library
    /\ Heap[id].usage > 0
    /\ ~In("code", Heap[id])

\* C1: when a program calls a procedure that is declared nowhere and is no
\* library entry, and translation found nothing else to report, the run
\* ends with a LogoLinkerError naming that identifier: not with a listing
\* and not with any other failure.
C1_UndeclaredCallIsLinkError ==
    \A id \in Ids :
        (UndeclaredCalled(id) /\ result = "True" /\ pc \in {"generated", "failed"})
        => /\ pc = "failed"
           /\ error.kind = "LogoLinkerError"
           /\ error.arg \in {Heap[j].name : j \in {k \in Ids : UndeclaredCalled(k)}}

\* C2: once p_error has reported a syntax error, parse_program does not
\* report success and code generation is not run, also when p_program was
\* still reduced after the token was discarded.
C2_SyntaxErrorFailsTranslation ==
    parser_error = "True" => (result # "True" /\ pc # "generated")

\* C3: in an emitted listing no non-library function with usage 0 has a DEF
\* block, and every DEF block belongs to a function with usage > 0.
C3_UnusedFunctionsOmitted ==
    pc = "generated" =>
        /\ \A i \in 1..Len(symtable.FUNCTION) :
              LET f == Heap[symtable.FUNCTION[i].v]
              IN (~f.library /\ f.usage = 0)
                 => \A l \in Lines("DEF") : listing[l].arg # f.name
        /\ \A l \in Lines("DEF") :
              \E i \in 1..Len(symtable.FUNCTION) :
                 /\ Heap[symtable.FUNCTION[i].v].name = listing[l].arg
                 /\ Heap[symtable.FUNCTION[i].v].usage > 0

\* a listing was emitted for a program that declares a function it never
\* calls, next to a function that is used
C3_Witness ==
    /\ pc = "generated"
    /\ \E i \in 1..Len(symtable.FUNCTION) :
          LET f == Heap[symtable.FUNCTION[i].v]
          IN ~f.library /\ f.usage = 0 /\ In("code", f)
    /\ Lines("DEF") # {}

\* C4: the .DATA section of an emitted listing has exactly one line for each
\* VAR symbol of the table with usage > 0 and none for a variable with usage
\* 0 (such as one that is only assigned), and there is no .DATA section when
\* no variable is used.
C4_DataSectionIsUsedVariables ==
    pc = "generated" =>
        /\ \A i \in 1..Len(symtable.VAR) :
              LET v == Heap[symtable.VAR[i].v]
              IN Cardinality({l \in Lines("=") : listing[l].arg = v.fqsn})
                 = IF v.usage > 0 THEN 1 ELSE 0
        /\ \A l \in Lines("=") :
              \E i \in 1..Len(symtable.VAR) :
                 Heap[symtable.VAR[i].v].fqsn = listing[l].arg
        /\ Cardinality(Lines(".DATA"))
           = IF \E i \in 1..Len(symtable.VAR) : Heap[symtable.VAR[i].v].usage > 0
             THEN 1 ELSE 0

\* a listing with a .DATA section was emitted for a program whose variable
\* is assigned a literal and never referenced
C4_Witness ==
    /\ pc = "generated"
    /\ Lines(".DATA") # {}
    /\ \E i \in 1..Len(symtable.VAR) :
          LET v == Heap[symtable.VAR[i].v]
          IN v.usage = 0 /\ In("value", v) /\ v.lineno >= 0

\* the names and classes a declaration is tried with in every state
DeclNames == {S("x"), S("X"), S("F"), S("f"), S("FO"), S("_@ang")}

DeclClasses == {"FUNCTION", "VAR"}

\* C5: declaring a name that resolves, whatever its case, to a symbol of the
\* other class raises SymbolRedeclaration carrying the line recorded in the
\* existing symbol, and the table (scope stack, every symbol record, class
\* tables) is left as it was; a run that ended with that error reports the
\* recorded line of the symbol the name resolves to.
C5_RedeclarationRejected ==
    /\ \A name \in DeclNames, class \in DeclClasses :
          LET sym == get_symbol(symtable, name, NONE, "None")
              r == add_symbol(symtable, name, class, line, NoKw)
          IN (sym # 0 /\ Heap[sym].type # class)
             => /\ r.error = SymbolRedeclaration(line, name, Heap[sym].lineno)
                /\ r.st = symtable
    /\ (pc = "failed" /\ error.kind = "SymbolRedeclaration")
       => LET sym == get_symbol(symtable, error.symbol, NONE, "None")
          IN sym # 0 /\ error.original = Heap[sym].lineno

\* a program was rejected because it calls a name it assigned to on an
\* earlier line
C5_Witness ==
    /\ pc = "failed"
    /\ error.kind = "SymbolRedeclaration"
    /\ error.original >= 1
    /\ error.original # error.lineno

\* C6: a key of a class table keeps the record it was given: no step, and so
\* no pop_scope, replaces the record stored under an FQSN by another one.
C6_FoldedRecordKept ==
    [][\A cls \in DeclClasses :
          \A i \in 1..Len(symtable[cls]) :
             DHas(symtable'[cls], symtable[cls][i].k)
             => DGet(symtable'[cls], symtable[cls][i].k) = symtable[cls][i].v]_vars

UsageBefore(id) == IF id <= Len(symtable.heap) THEN symtable.heap[id].usage ELSE 0

Range(s) == {s[i] : i \in 1..Len(s)}

\* C7: a call statement that counts the usage of a FUNCTION symbol adds
\* exactly 1 to that symbol, 1 to its aliasee when it is an alias, 1 to every
\* parameter variable and every 'uses' variable of the resolved function,
\* and nothing to any other symbol.
C7_CountUsageExact ==
    [][\A c \in CallInputs :
          LET f == get_symbol(symtable', c[1], NONE, "None")
              g == IF f # 0 /\ In("alias", symtable'.heap[f])
                   THEN get_symbol(symtable', symtable'.heap[f].alias, NONE, "None")
                   ELSE f
              deps == UNION {VarsNamed(symtable', a) :
                                a \in Range(symtable'.heap[g].argv)
                                      \cup Range(symtable'.heap[g].uses)}
              expected(id) == (IF id = f THEN 1 ELSE 0)
                              + (IF g # f /\ id = g THEN 1 ELSE 0)
                              + (IF id \in deps THEN 1 ELSE 0)
          IN (/\ p_primitive_call(c[1], c[2])
              /\ f # 0 /\ g # 0
              /\ symtable'.heap[f].type = "FUNCTION")
             => \A id \in 1..Len(symtable'.heap) :
                   symtable'.heap[id].usage - UsageBefore(id) = expected(id)]_vars

\* C8: every parameter named by the signature of a declared function is a
\* registered VAR symbol under its qualified name from the moment the
\* signature has been reduced.
C8_ParametersDeclared ==
    \A id \in Ids :
        (Heap[id].type = "FUNCTION" /\ ~Heap[id].library /\ In("argc", Heap[id]))
        => \A i \in 1..Len(Heap[id].argv) :
              VarsNamed(symtable, Heap[id].argv[i]) # {}

CondJumps == {"JLESS", "JMORE", "JZ", "JNZ"}

\* the shape of a comparison that has both targets: operand code, SUB, POP,
\* k conditional branches to the true target, one JP to the false target
BranchesThenJump(k) ==
    LET ops == gen_code(symtable, rel.node.lhs) \o gen_code(symtable, rel.node.rhs)
        n == Len(ops)
    IN /\ Len(rel.code) = n + 2 + k + 1
       /\ SubSeq(rel.code, 1, n) = ops
       /\ rel.code[n + 1] = I("SUB", <<>>)
       /\ rel.code[n + 2] = I("POP", <<>>)
       /\ \A i \in (n + 3)..(n + 2 + k) :
             /\ rel.code[i].op \in CondJumps
             /\ rel.code[i].arg = <<":">> \o rel.node.true[1].name
       /\ rel.code[n + 3 + k] = I("JP", <<":">> \o rel.node.false[1].name)

BothTargets ==
    rel.state = "generated" /\ rel.node.true # NONE /\ rel.node.false # NONE

\* C9 as stated: with both targets set the code of every relational operator
\* is operand code, SUB, POP, exactly one conditional branch and exactly one
\* unconditional jump to the false target.
C9_OneConditionalBranch == BothTargets => BranchesThenJump(1)

\* C9: with both targets set the code is operand code, SUB, POP, the
\* conditional branches to the true target (one for <, >, == and <>, two for
\* <= and >=) and then exactly one unconditional jump to the false target.
C9_BranchesThenOneJump ==
    BothTargets => BranchesThenJump(IF rel.oper \in {"<=", ">="} THEN 2 ELSE 1)

\* code was generated for a <= with both targets set
C9_Witness == BothTargets /\ rel.oper = "<=" /\ Len(rel.code) = 7

\* C10: a comparison of two string operands is accepted exactly when the
\* operator is == or <>, and a comparison with an ordering operator and a
\* string operand is rejected.
C10_StringComparison ==
    rel.state \in {"node", "rejected"} =>
        /\ (rel.lhs.datatype = "str" /\ rel.rhs.datatype = "str")
           => (rel.state = "node" <=> rel.oper \in {"==", "<>"})
        /\ ((rel.lhs.datatype = "str" \/ rel.rhs.datatype = "str")
            /\ rel.oper \in {"<", "<=", ">", ">="})
           => rel.state = "rejected"

\* the node the statement just reduced was stored as: the last entry of the
\* open TO block's body, or of the code of __main__
LastStatement(st, b) ==
    IF Len(st.scopes) = 2 THEN b.code[Len(b.code)]
    ELSE With(st.heap[get_symbol(st, S("__main__"), Some(<<>>), "None")].code.code,
              LAMBDA code : code[Len(code)])

\* C14: an assignment statement emits no instructions only when its variable
\* did not exist before and its right-hand side is a constant; an assignment
\* to a variable that already exists is an assignment node whose code ends
\* with a store to the variable's FQSN.
C14_AssignmentEmitsStore ==
    [][\A name \in VarNames, oper \in AssignOps, rhs \in RhsInputs :
          (p_assignment_expr(name, oper, rhs) /\ pc' = "parsing")
          => LET node == LastStatement(symtable', body')
                 existed == get_symbol(symtable, name, NONE, "None") # 0
                 code == gen_code(symtable', node)
             IN /\ code = <<>> => (~existed /\ rhs # "RANDOM")
                /\ existed
                   => /\ node.node = "AssignOperator"
                      /\ code # <<>>
                      /\ code[Len(code)]
                            = I("STOR", symtable'.heap[node.lhs].fqsn)]_vars

\* C15: a VAR symbol that has a recorded value keeps it through every step,
\* the record stored under an FQSN in the VAR table keeps showing the value
\* first recorded there, and the .DATA line of a variable shows that value.
C15_RecordedValueKept ==
    [][/\ \A id \in 1..Len(symtable.heap) :
             (symtable.heap[id].type = "VAR" /\ In("value", symtable.heap[id]))
             => /\ In("value", symtable'.heap[id])
                /\ symtable'.heap[id].value = symtable.heap[id].value
       /\ \A i \in 1..Len(symtable.VAR) :
             (/\ In("value", symtable.heap[symtable.VAR[i].v])
              /\ DHas(symtable'.VAR, symtable.VAR[i].k))
             => symtable'.heap[DGet(symtable'.VAR, symtable.VAR[i].k)].value
                   = symtable.heap[symtable.VAR[i].v].value
       /\ pc' = "generated"
          => \A l \in 1..Len(listing') :
                listing'[l].op = "="
                => \E i \in 1..Len(symtable.VAR) :
                      LET v == symtable.heap[symtable.VAR[i].v]
                      IN /\ v.fqsn = listing'[l].arg
                         /\ In("value", v) => listing'[l].val = v.value]_vars

\* C17: in an emitted listing no function has two DEF blocks, and every
\* function that has one is marked generated.
C17_BodyEmittedOnce ==
    pc = "generated"
    => /\ \A l1, l2 \in Lines("DEF") :
             listing[l1].arg = listing[l2].arg => l1 = l2
       /\ \A l \in Lines("DEF") :
             \E i \in 1..Len(symtable.FUNCTION) :
                /\ Heap[symtable.FUNCTION[i].v].name = listing[l].arg
                /\ Heap[symtable.FUNCTION[i].v].generated

\* a listing was emitted for a program that uses FORWARD through its alias
\* FO: both are selected and resolve to the one body of FORWARD
C17_Witness ==
    /\ pc = "generated"
    /\ \E i, j \in 1..Len(symtable.FUNCTION) :
          /\ symtable.FUNCTION[i].k = S("FO")
          /\ symtable.FUNCTION[j].k = S("FORWARD")
          /\ Heap[symtable.FUNCTION[i].v].usage > 0
          /\ Heap[symtable.FUNCTION[j].v].usage > 0
    /\ Cardinality({l \in Lines("DEF") : listing[l].arg = S("FORWARD")}) = 1

\* the scopes of the active chain that hold the name with the class asked
ChainHits(st, symbol, symtype) ==
    {i \in 1..Len(st.scopes) :
        /\ DHas(st.scopes[i].symbols, upper(symbol))
        /\ st.heap[DGet(st.scopes[i].symbols, upper(symbol))].type = symtype}

\* C18: for every FQSN of a class table that the active scope chain does not
\* hold, get_symbol with that class filter and no scope filter returns the
\* symbol the table stores under it.
C18_FallbackFindsTableEntry ==
    \A cls \in DeclClasses :
        \A i \in 1..Len(symtable[cls]) :
            ChainHits(symtable, symtable[cls][i].k, cls) = {}
            => get_symbol(symtable, symtable[cls][i].k, NONE, cls) = symtable[cls][i].v

\* C11: constructing a binary arithmetic node succeeds exactly when both
\* operand types are int or float; for every other pair, bool with bool
\* included, the constructor itself fails, so a node with a bool or string
\* operand never reaches code generation.
C11_ConstructorAcceptsOnlyNumbers ==
    LET numeric == /\ type_of(symtable, rel.lhs) \in {"int", "float"}
                   /\ type_of(symtable, rel.rhs) \in {"int", "float"}
    IN /\ rel.state \in {"constructed", "refused"} =>
             (rel.state = "constructed" <=> numeric)
       /\ rel.state = "generated" => numeric

----------------------------------------------------------------------------
(* Properties of boolean expressions and control statements.              *)

\* gen_code was called on the finished node and returned
Emitted(built) ==
    rel.state = "generated" /\ rel.built = built /\ rel.error = NoError

\* the code of the condition when the statement gave it these targets
CondCode(true, false) ==
    node_gen_code(symtable, [rel.cond EXCEPT !.true = true, !.false = false]).code

BodyCode(stmts) == Flatten([i \in 1..Len(stmts) |-> gen_code(symtable, stmts[i])], 1)

\* C12: for every node, gen_code called twice in a row with the node's own
\* targets unchanged returns the same instruction sequence both times, and
\* no call changes a symbol.
C12_GenCodeIdempotent ==
    [][(rel.state \in {"targeted", "generated"}
        /\ rel'.state \in {"generated", "regenerated"}) =>
          /\ rel'.error = NoError
          /\ symtable' = symtable
          /\ rel'.state = "regenerated" => rel'.again = rel.code]_vars

\* C13: IF c THEN body END with no ELSE emits exactly the condition code
\* (false target one fresh label, true falling through), the code of the
\* THEN body and that one label: no second label, no unconditional jump.
C13_IfWithoutElseLayout ==
    Emitted("IF") =>
       \E false \in {Label(new_label(1))} :
          rel.code = CondCode(NONE, Some(false)) \o BodyCode(ThenBody)
                     \o Label_gen_code(false)

\* C16: WHILE c body END emits, in this order, the loop-start label, the
\* condition code with the exit label as false target and true falling
\* through, the body code, an unconditional jump to the loop-start label
\* and the exit label.
C16_WhileLayout ==
    Emitted("WHILE") =>
       \E start \in {Label(rel.code[1].arg)},
          exit \in {Label(rel.code[Len(rel.code)].arg)} :
          /\ start # exit
          /\ rel.code = Label_gen_code(start) \o CondCode(NONE, Some(exit))
                        \o BodyCode(LoopBody)
                        \o <<I("JP", <<":">> \o start.name)>>
                        \o Label_gen_code(exit)

\* a WHILE over `:x < 1` was emitted: the test branches to the exit label
C16_Witness ==
    /\ Emitted("WHILE")
    /\ rel.cond.node = "RelationalOperator" /\ rel.cond.oper = "<"
    /\ Len(rel.code) = 10

\* the number a PUSH operand stands for
Value(arg) ==
    CASE arg = S("0") -> 0
      [] arg = S("1") -> 1
      [] arg = S("2") -> 2
      [] arg = S("10") -> 10
      [] arg = S("20") -> 20
      [] arg = S("30") -> 30

\* what a comparison means
Holds(oper, a, b) ==
    CASE oper = "<" -> a < b
      [] oper = "<=" -> a <= b
      [] oper = ">" -> a > b
      [] oper = ">=" -> a >= b
      [] oper = "==" -> a = b
      [] oper = "<>" -> a # b

\* whether a branch is taken when the last SUB left d
Taken(op, d) ==
    CASE op = "JP" -> TRUE
      [] op = "JLESS" -> d < 0
      [] op = "JMORE" -> d > 0
      [] op = "JZ" -> d = 0
      [] op = "JNZ" -> d # 0

\* the line of the label a branch names
TargetLine(code, arg) == CHOOSE i \in 1..Len(code) : code[i] = I(":", Tail(arg))

RECURSIVE Executed(_, _, _, _, _)
\* the lines the target machine executes from line i on: env holds the
\* variables, stack the operands, d the result of the last SUB
Executed(code, i, env, stack, d) ==
    IF i > Len(code) THEN {}
    ELSE {i} \cup
         CASE code[i].op = "LOAD" ->
                 Executed(code, i + 1, env, Append(stack, env[code[i].arg]), d)
           [] code[i].op = "PUSH" ->
                 Executed(code, i + 1, env, Append(stack, Value(code[i].arg)), d)
           [] code[i].op = "SUB" ->
                 With(stack[Len(stack) - 1] - stack[Len(stack)],
                      LAMBDA diff :
                         Executed(code, i + 1, env,
                                  Append(SubSeq(stack, 1, Len(stack) - 2), diff),
                                  diff))
           [] code[i].op = "POP" ->
                 Executed(code, i + 1, env, SubSeq(stack, 1, Len(stack) - 1), d)
           [] code[i].op \in CondJumps \cup {"JP"} ->
                 IF Taken(code[i].op, d)
                 THEN Executed(code, TargetLine(code, code[i].arg), env, stack, d)
                 ELSE Executed(code, i + 1, env, stack, d)
           [] OTHER -> Executed(code, i + 1, env, stack, d)

\* the values the variables of a condition are tried with, around the 1
\* they are compared to
Values == 0..2

\* the THEN body is reached when x and y hold vx and vy
ReachesThen(vx, vy) ==
    (CHOOSE i \in 1..Len(rel.code) : rel.code[i] = I("PUSH", S("10")))
       \in Executed(rel.code, 1, (S("x") :> vx) @@ (S("y") :> vy), <<>>, 0)

\* the condition joins two comparisons of a variable with oper
OverVariables(oper) ==
    /\ rel.cond.node = "BooleanOperator" /\ rel.cond.oper = oper
    /\ rel.cond.lhs.node = "RelationalOperator" /\ ~is_const(rel.cond.lhs)
    /\ rel.cond.rhs[1].node = "RelationalOperator" /\ ~is_const(rel.cond.rhs[1])

\* C19: the code of IF a OR b THEN T ELSE E END reaches the THEN body
\* exactly when at least one of the comparisons a and b is true.
C19_OrReachesThen ==
    (Emitted("IFELSE") /\ OverVariables("OR")) =>
       \A vx \in Values, vy \in Values :
          ReachesThen(vx, vy) <=> \/ Holds(rel.cond.lhs.oper, vx, 1)
                                  \/ Holds(rel.cond.rhs[1].oper, vy, 1)

\* C20: gen_code of an AND or OR node never fails and returns the code of
\* the left operand followed by the code of the right operand, each under
\* the targets the combinator passes on, constant operands included.
C20_CombinatorEmitsBothOperands ==
    (/\ rel.state = "generated" /\ rel.built = "expression"
     /\ rel.cond.node = "BooleanOperator" /\ rel.cond.oper \in {"AND", "OR"}) =>
       /\ rel.error = NoError
       /\ rel.code =
             node_gen_code(symtable,
                 [rel.cond.lhs EXCEPT
                     !.true = IF rel.cond.oper = "AND" THEN NONE ELSE rel.node.true,
                     !.false = rel.node.false]).code
             \o node_gen_code(symtable,
                    [rel.cond.rhs[1] EXCEPT !.true = rel.node.true,
                                            !.false = rel.node.false]).code

----------------------------------------------------------------------------
(* Properties of calls.                                                    *)

RECURSIVE Pushed(_, _, _)
RECURSIVE Stored(_, _, _, _)
RECURSIVE PushesBefore(_, _)
\* the operand stack after the argument code of a call, from line i on:
\* every PUSH up to the CALL puts its value on top
Pushed(code, i, stack) ==
    IF i > Len(code) \/ code[i].op # "PUSH" THEN stack
    ELSE Pushed(code, i + 1, Append(stack, code[i].arg))

\* the memory after the STOR instructions of a DEF header, from line i on:
\* every STOR pops the top of the stack into its operand
Stored(code, i, stack, memory) ==
    IF i > Len(code) \/ code[i].op # "STOR" \/ stack = <<>> THEN memory
    ELSE Stored(code, i + 1, SubSeq(stack, 1, Len(stack) - 1),
                DPut(memory, code[i].arg, stack[Len(stack)]))

\* the number of PUSH lines that end just before line c: the argument code
\* of the call at line c
PushesBefore(code, c) ==
    IF c = 1 \/ code[c - 1].op # "PUSH" THEN 0
    ELSE 1 + PushesBefore(code, c - 1)

\* the number of STOR lines of the DEF header at line d
HeaderStores(code, d) == Len(Stored(code, d + 1, [i \in 1..Len(code) |-> <<>>], <<>>))

\* the FQSN of parameter i of the signatures TO F ...
Parameter(i) == <<"@", "F", ".">> \o <<S("x"), S("y")>>[i]

\* the value of argument i of the call of F that has n arguments
Argument(n, i) == (CHOOSE args \in ArgumentInputs : Len(args) = n)[i].value

\* C21: for F declared with parameters p1 ... pn and a call F e1 ... en, the
\* argument code of the call followed by the STOR instructions of the DEF
\* header, run on a LIFO stack, leaves the value of ei in pi for every i.
C21_ArgumentsReachParameters ==
    pc = "generated" =>
       \A c \in 1..Len(listing), d \in 1..Len(listing) :
          (/\ listing[c] = I("CALL", S("F")) /\ listing[d] = I("DEF", S("F"))
           /\ PushesBefore(listing, c) = HeaderStores(listing, d)) =>
             \E n \in {PushesBefore(listing, c)} :
                \A i \in 1..n :
                   DGet(Stored(listing, d + 1, Pushed(listing, c - n, <<>>), <<>>),
                        Parameter(i)) = Argument(n, i)

\* the listing of a program that declares TO F :x :y and calls F 1 5
C21_Witness ==
    /\ pc = "generated"
    /\ \E i \in 1..Len(listing) - 2 :
          /\ listing[i] = I("DEF", S("F"))
          /\ listing[i + 1].op = "STOR" /\ listing[i + 2].op = "STOR"
    /\ \E i \in 1..Len(listing) - 2 :
          /\ listing[i].op = "PUSH" /\ listing[i + 1].op = "PUSH"
          /\ listing[i].arg # listing[i + 1].arg
          /\ listing[i + 2] = I("CALL", S("F"))

----------------------------------------------------------------------------
(* Properties of the data section.                                         *)

\* C23: in every emitted listing each variable that is the operand of a
\* LOAD or a STOR of the .CODE section has a line in the .DATA section
\* that gives its initial value.
C23_OperandsHaveData ==
    pc = "generated" =>
       \A i \in 1..Len(listing) :
          listing[i].op \in {"LOAD", "STOR"} =>
             \E j \in 1..Len(listing) :
                listing[j].op = "=" /\ listing[j].arg = listing[i].arg

----------------------------------------------------------------------------
(* Properties of compound assignments.                                     *)

\* what the operation of a compound assignment computes
Applied(oper, a, b) ==
    CASE oper = "+=" -> a + b
      [] oper = "-=" -> a - b
      [] oper = "*=" -> a * b
      [] oper = "/=" -> a \div b

\* C24: the compiled effect of X op= e on X is (current value of X) op e:
\* either the code loads X, computes e, applies op and stores X, or, the
\* assignment being elided as a constant first declaration, the literal
\* recorded for X is (zero of its type) op e.
C24_CompoundAssignmentApplies ==
    [][\A name \in VarNames, oper \in CompoundOps, rhs \in RhsInputs :
          (p_assignment_expr(name, oper, rhs) /\ pc' = "parsing") =>
             \E node \in {LastStatement(symtable', body')},
                X \in {symtable'.heap[get_symbol(symtable', name, NONE, "None")]} :
                IF node.node = "AssignOperator"
                THEN gen_code(symtable', node)
                        = <<I("LOAD", X.fqsn)>> \o gen_code(symtable', node.rhs)
                          \o <<I(assign_mnemonic(oper)[1], <<>>), I("STOR", X.fqsn)>>
                ELSE Value(X.value)
                        = Applied(oper, Value(zero_of(X.datatype)), Value(S(rhs)))]_vars

----------------------------------------------------------------------------
(* Properties of the labels of control statements.                         *)

Jumps == {"JP", "JLESS", "JMORE", "JZ", "JNZ"}

\* the lines of the listing that mark the label a jump names
Markers(name) == {j \in 1..Len(listing) : listing[j] = I(":", name)}

\* the DEF line of the function whose code holds line i
Enclosing(i) ==
    CHOOSE d \in 0..i :
       /\ d > 0 => listing[d].op = "DEF"
       /\ \A k \in (d + 1)..i : listing[k].op # "DEF"

\* C22: in an emitted listing no two label markers carry the same name, and
\* the label every jump or branch names is marked exactly once, in the code
\* of the function that holds the jump.
C22_LabelsUniqueAndLocal ==
    pc = "generated" =>
       /\ \A i \in 1..Len(listing), j \in 1..Len(listing) :
             (listing[i].op = ":" /\ listing[j].op = ":" /\ i # j) =>
                listing[i].arg # listing[j].arg
       /\ \A i \in 1..Len(listing) :
             listing[i].op \in Jumps =>
                /\ Cardinality(Markers(Tail(listing[i].arg))) = 1
                /\ \A j \in Markers(Tail(listing[i].arg)) :
                      Enclosing(j) = Enclosing(i)

\* a statement inside a loop was compiled: the jump back to the start of
\* the loop passes over the two labels of the inner statement, and another
\* jump goes forward
C22_Witness ==
    /\ pc = "generated"
    /\ \E i \in 1..Len(listing) :
          /\ listing[i].op \in Jumps
          /\ \E j \in Markers(Tail(listing[i].arg)) :
                /\ j < i
                /\ Cardinality({k \in (j + 1)..(i - 1) : listing[k].op = ":"}) >= 2
    /\ \E i \in 1..Len(listing) :
          listing[i].op \in Jumps /\ \E j \in Markers(Tail(listing[i].arg)) : j > i

====
